---- MODULE Spec2Model ----
(***************************************************************************)
(* Multi-modal RAPTOR journey planner (part2_raptor_algorithm.py).         *)
(* The module models the engine GangnamMultiModalRAPTOR: construction of   *)
(* the network index, one find_routes query at a time (round-based label   *)
(* search, result collection, journey selection), and the pure functions   *)
(* the engine is built on, each under a specification of its own: label    *)
(* dominance (SpecDom), journey selection (SpecSel), road routing and the  *)
(* bike fare (SpecCalc), the transfer table of the loader and of the       *)
(* engine (SpecIdx), the transit leg of the mixed routes (SpecMix).        *)
(* SpecLive is Spec with the round loop run fairly.                        *)
(*                                                                         *)
(* Time is in minutes, cost in won, distance in metres on a line.          *)
(* Optional[RaptorLabel] is a set of at most one label; Optional[str] is   *)
(* the string "None"; a Python dict is a function plus, where the code     *)
(* iterates it, the sequence of its keys in insertion order.               *)
(***************************************************************************)
EXTENDS Integers, Sequences, FiniteSets, TLC

VARIABLES
    data_files,         \* what is on disk under data_path when the engine is built
    stops,              \* self.stops: sequence of [stop_id, pos] (dict order)
    routes,             \* self.routes: route_id -> [stop_pattern, base_fare]
    trips,              \* self.trips: trip_id -> [route_id, stop_times]
    route_to_trips,     \* self.route_to_trips: route_id -> sequence of <<trip_id, first_departure>>
    stop_to_routes,     \* self.stop_to_routes: stop_id -> sequence of route_id
    transfers,          \* self.transfers: stop_id -> sequence of <<stop_id, minutes>>
    bike_stations,      \* self.bike_stations: sequence of [station_id, pos]
    road_graph,         \* self.road_graph: "None", "loaded" or "basic_grid"
    pc,                 \* position of the engine / of the running query
    raised,             \* an exception left find_routes
    access_stops,       \* _find_access_stops of the origin
    egress_stops,       \* _find_access_stops of the destination
    include_bike,       \* find_routes argument
    dep_time,           \* departure time of the query, minutes of day
    max_routes,         \* find_routes argument
    best_labels,        \* stop_id -> RaptorLabel
    label_order,        \* keys of best_labels in insertion order
    marked_stops,
    new_marked_stops,
    scanned_routes,
    round_num,
    pending_stops,      \* marked stops the route-scanning loop has not visited yet
    cur_routes,         \* routes of the stop being visited that are still to be looked at
    scan,               \* position inside _scan_route (boarding and stop_time index)
    current_labels,     \* _process_transfers: snapshot of best_labels
    transfer_queue,     \* _process_transfers: (source, target, minutes) still to relax
    transfer_new_stops, \* _process_transfers: new_stops
    results,            \* what _execute_raptor_algorithm returns
    all_journeys,       \* find_routes: candidates of all generators
    output,             \* what find_routes returns
    prev_round_labels,  \* history: best_labels as the previous round left it
    last_write,         \* history: the last label replacement (stop, old, new)
    cand                \* find_routes: the origin and the destination of the
                        \* query; the dominance rule and the selector on their
                        \* own: what was judged or applied, or the scored list

vars == << data_files, stops, routes, trips, route_to_trips, stop_to_routes,
           transfers, bike_stations, road_graph, pc, raised, access_stops,
           egress_stops, include_bike, dep_time, max_routes, best_labels, label_order, marked_stops,
           new_marked_stops, scanned_routes, round_num, pending_stops,
           cur_routes, scan, current_labels, transfer_queue,
           transfer_new_stops, results, all_journeys, output,
           prev_round_labels, last_write, cand >>

indexVars == << stops, routes, trips, route_to_trips, stop_to_routes,
                transfers, bike_stations, road_graph >>

inputVars == << access_stops, egress_stops, include_bike, dep_time, max_routes >>

queryVars == << inputVars, best_labels,
                label_order, marked_stops, new_marked_stops, scanned_routes,
                round_num, pending_stops, cur_routes, scan, current_labels,
                transfer_queue, transfer_new_stops, results, all_journeys,
                output, prev_round_labels, last_write >>

-----------------------------------------------------------------------------
(* Program constants *)

MAX_ROUNDS == 5
TRANSFER_DISCOUNT == 300
BASE_TRANSIT_FARE == 1370
BASE_BUS_FARE == 1200
BIKE_RENTAL_TIME == 2
MAX_WALK_TIME == 15
BIKE_BASE_FARE == 1000
\* WALK_SPEED 4.5 km/h and BIKE_SPEED 12 km/h, in metres per minute
WALK_M_PER_MIN == 75
BIKE_M_PER_MIN == 200

None == "None"

-----------------------------------------------------------------------------
(* Bounds of the model *)

MaxPoints == 4

-----------------------------------------------------------------------------
(* Generic helpers *)

Range(s) == { s[i] : i \in DOMAIN s }

Min2(a, b) == IF a <= b THEN a ELSE b
Max2(a, b) == IF a >= b THEN a ELSE b
Abs(x) == IF x < 0 THEN -x ELSE x

EmptyMap == << >>

\* dict.get(k, default)
Get(d, k, default) == IF k \in DOMAIN d THEN d[k] ELSE default

\* d[k] = v, and d's key order
Put(d, k, v) == [ x \in DOMAIN d \cup {k} |-> IF x = k THEN v ELSE d[x] ]
Touch(order, k) == IF k \in Range(order) THEN order ELSE Append(order, k)

\* seq[:n] of Python: a negative n counts from the end
SliceTo(seq, n) ==
    IF n >= 0 THEN SubSeq(seq, 1, Min2(n, Len(seq)))
    ELSE SubSeq(seq, 1, Max2(0, Len(seq) + n))

\* sorted(pairs, key=first component): Python's stable sort, as insertion of
\* each element after the last element whose key is <= its own
RECURSIVE InsertPair(_, _)
InsertPair(sorted, x) ==
    IF sorted = << >> THEN << x >>
    ELSE IF x[1] < Head(sorted)[1] THEN << x >> \o sorted
    ELSE << Head(sorted) >> \o InsertPair(Tail(sorted), x)

RECURSIVE SortPairs(_)
SortPairs(pairs) ==
    IF pairs = << >> THEN << >>
    ELSE InsertPair(SortPairs(SubSeq(pairs, 1, Len(pairs) - 1)),
                    pairs[Len(pairs)])

\* sorted(seq, key=...) on a field (of records) or a position (of tuples)
SortedBy(seq, key) ==
    LET pairs == [ i \in 1..Len(seq) |-> << seq[i][key], seq[i] >> ]
        sorted == SortPairs(pairs)
    IN  [ i \in 1..Len(seq) |-> sorted[i][2] ]

-----------------------------------------------------------------------------
(* Data on disk: gangnam_raptor_structures.pkl (route_patterns and          *)
(* trip_schedules, dicts in insertion order), gangnam_stops.csv,            *)
(* gangnam_routes.csv and the road graph pickle.                            *)

StopTime(s, arr, dep) == [ stop_id |-> s, arrival_time |-> arr, departure_time |-> dep ]

\* five one-leg routes in a row: c0 -> c1 -> c2 -> c3 -> c4 -> c5
ChainFiles ==
    [ has_raptor |-> TRUE,
      route_patterns |->
        << [ route_id |-> "K5", pattern |-> << "c4", "c5" >> ],
           [ route_id |-> "K4", pattern |-> << "c3", "c4" >> ],
           [ route_id |-> "K3", pattern |-> << "c2", "c3" >> ],
           [ route_id |-> "K2", pattern |-> << "c1", "c2" >> ],
           [ route_id |-> "K1", pattern |-> << "c0", "c1" >> ] >>,
      trip_schedules |->
        << [ trip_id |-> "k1", schedule |-> << StopTime("c0", 2, 2), StopTime("c1", 3, 3) >> ],
           [ trip_id |-> "k2", schedule |-> << StopTime("c1", 4, 4), StopTime("c2", 5, 5) >> ],
           [ trip_id |-> "k3", schedule |-> << StopTime("c2", 6, 6), StopTime("c3", 7, 7) >> ],
           [ trip_id |-> "k4", schedule |-> << StopTime("c3", 8, 8), StopTime("c4", 9, 9) >> ],
           [ trip_id |-> "k5", schedule |-> << StopTime("c4", 10, 10), StopTime("c5", 11, 11) >> ] >>,
      stops_csv |->
        << [ stop_id |-> "c0", pos |-> 0 ],    [ stop_id |-> "c1", pos |-> 1000 ],
           [ stop_id |-> "c2", pos |-> 2000 ], [ stop_id |-> "c3", pos |-> 3000 ],
           [ stop_id |-> "c4", pos |-> 4000 ], [ stop_id |-> "c5", pos |-> 5000 ] >>,
      routes_csv |-> << >>,
      bike_csv |-> << >>,
      csv_has_columns |-> TRUE,
      has_road_graph |-> TRUE ]

\* one route P -> S, and a walking chain A - M - S (250 m apart), with a
\* route whose pattern is empty, a trip without stop-times and a trip with a
\* single stop-time
TolFiles ==
    [ has_raptor |-> TRUE,
      route_patterns |->
        << [ route_id |-> "L1", pattern |-> << "P", "S" >> ],
           [ route_id |-> "L0", pattern |-> << >> ] >>,
      trip_schedules |->
        << [ trip_id |-> "t1", schedule |-> << StopTime("P", 2, 2), StopTime("S", 12, 12) >> ],
           [ trip_id |-> "t0", schedule |-> << >> ],
           [ trip_id |-> "t9", schedule |-> << StopTime("S", 20, 20) >> ] >>,
      stops_csv |->
        << [ stop_id |-> "P", pos |-> 0 ],   [ stop_id |-> "A", pos |-> 725 ],
           [ stop_id |-> "M", pos |-> 975 ], [ stop_id |-> "S", pos |-> 1225 ] >>,
      routes_csv |-> << [ route_id |-> "L1", route_type |-> 1 ] >>,
      bike_csv |-> << >>,
      csv_has_columns |-> TRUE,
      has_road_graph |-> TRUE ]

\* two routes meeting at b: R1 a -> b, R2 b -> c with an early and a late trip
OrderFiles ==
    [ has_raptor |-> TRUE,
      route_patterns |->
        << [ route_id |-> "R2", pattern |-> << "b", "c" >> ],
           [ route_id |-> "R1", pattern |-> << "a", "b" >> ] >>,
      trip_schedules |->
        << [ trip_id |-> "r2late", schedule |-> << StopTime("b", 9, 9), StopTime("c", 10, 10) >> ],
           [ trip_id |-> "r1",     schedule |-> << StopTime("a", 2, 2), StopTime("b", 4, 4) >> ],
           [ trip_id |-> "r2",     schedule |-> << StopTime("b", 5, 5), StopTime("c", 6, 6) >> ] >>,
      stops_csv |->
        << [ stop_id |-> "a", pos |-> 0 ], [ stop_id |-> "b", pos |-> 700 ],
           [ stop_id |-> "c", pos |-> 3000 ] >>,
      routes_csv |-> << [ route_id |-> "R1", route_type |-> 3 ],
                        [ route_id |-> "R2", route_type |-> 3 ] >>,
      bike_csv |-> << [ station_id |-> "dock1", pos |-> 100 ],
                      [ station_id |-> "dock2", pos |-> 2900 ] >>,
      csv_has_columns |-> TRUE,
      has_road_graph |-> TRUE ]

\* three routes: y -> A slow, x -> z fast and z -> A, which reaches A a
\* minute before the slow route does; x is 150 m from y and M 200 m from A
LoopFiles ==
    [ has_raptor |-> TRUE,
      route_patterns |->
        << [ route_id |-> "RB", pattern |-> << "z", "A" >> ],
           [ route_id |-> "RZ", pattern |-> << "x", "z" >> ],
           [ route_id |-> "RA", pattern |-> << "y", "A" >> ] >>,
      trip_schedules |->
        << [ trip_id |-> "ra", schedule |-> << StopTime("y", 2, 2), StopTime("A", 6, 6) >> ],
           [ trip_id |-> "rz", schedule |-> << StopTime("x", 2, 2), StopTime("z", 3, 3) >> ],
           [ trip_id |-> "rb", schedule |-> << StopTime("z", 4, 4), StopTime("A", 5, 5) >> ] >>,
      stops_csv |->
        << [ stop_id |-> "y", pos |-> 0 ], [ stop_id |-> "x", pos |-> 150 ],
           [ stop_id |-> "A", pos |-> 2000 ], [ stop_id |-> "M", pos |-> 2200 ],
           [ stop_id |-> "z", pos |-> 5000 ] >>,
      routes_csv |-> << [ route_id |-> "RA", route_type |-> 3 ],
                        [ route_id |-> "RZ", route_type |-> 3 ],
                        [ route_id |-> "RB", route_type |-> 3 ] >>,
      bike_csv |-> << >>,
      csv_has_columns |-> TRUE,
      has_road_graph |-> TRUE ]

\* one route u -> s; t is 200 m from s on one side and from q on the other
SwingFiles ==
    [ has_raptor |-> TRUE,
      route_patterns |-> << [ route_id |-> "RU", pattern |-> << "u", "s" >> ] >>,
      trip_schedules |->
        << [ trip_id |-> "ru", schedule |-> << StopTime("u", 2, 2), StopTime("s", 7, 7) >> ] >>,
      stops_csv |->
        << [ stop_id |-> "u", pos |-> 3075 ], [ stop_id |-> "q", pos |-> 3675 ],
           [ stop_id |-> "t", pos |-> 3875 ], [ stop_id |-> "s", pos |-> 4075 ] >>,
      routes_csv |-> << [ route_id |-> "RU", route_type |-> 3 ] >>,
      bike_csv |-> << >>,
      csv_has_columns |-> TRUE,
      has_road_graph |-> TRUE ]

\* one route f -> m -> n -> e with an early and a late trip; n is near the
\* point at 75 m, f ten minutes from it, m and e far from every point
SkipFiles ==
    [ has_raptor |-> TRUE,
      route_patterns |->
        << [ route_id |-> "RS", pattern |-> << "f", "m", "n", "e" >> ] >>,
      trip_schedules |->
        << [ trip_id |-> "early",
             schedule |-> << StopTime("f", 2, 2), StopTime("m", 3, 3),
                             StopTime("n", 4, 4), StopTime("e", 5, 5) >> ],
           [ trip_id |-> "late",
             schedule |-> << StopTime("f", 12, 12), StopTime("m", 13, 13),
                             StopTime("n", 15, 15), StopTime("e", 16, 16) >> ] >>,
      stops_csv |->
        << [ stop_id |-> "n", pos |-> 0 ], [ stop_id |-> "f", pos |-> 825 ],
           [ stop_id |-> "m", pos |-> 9000 ], [ stop_id |-> "e", pos |-> 9500 ] >>,
      routes_csv |-> << [ route_id |-> "RS", route_type |-> 3 ] >>,
      bike_csv |-> << >>,
      csv_has_columns |-> TRUE,
      has_road_graph |-> TRUE ]

\* no RAPTOR structure file and no road graph file; the stops CSV is there
NoIndexFiles ==
    [ has_raptor |-> FALSE,
      route_patterns |-> << >>,
      trip_schedules |-> << >>,
      stops_csv |-> << [ stop_id |-> "x", pos |-> 0 ], [ stop_id |-> "y", pos |-> 200 ] >>,
      routes_csv |-> << >>,
      bike_csv |-> << >>,
      csv_has_columns |-> TRUE,
      has_road_graph |-> FALSE ]

\* a stops file without the stop_lat column: reading a row raises KeyError
BrokenFiles == [ NoIndexFiles EXCEPT !.csv_has_columns = FALSE ]

DataFiles ==
    { ChainFiles, TolFiles, OrderFiles, LoopFiles, SwingFiles, SkipFiles,
      NoIndexFiles, BrokenFiles }

-----------------------------------------------------------------------------
(* Construction of the index: _load_all_data *)

\* routes after _load_raptor_structures and the fare update of _load_csv_data
LoadRoutes(df) ==
    LET rp == IF df.has_raptor THEN df.route_patterns ELSE << >>
        kept == { i \in DOMAIN rp : rp[i].pattern # << >> }
        ids == { rp[i].route_id : i \in kept }
        PatternOf(rid) == rp[CHOOSE i \in kept : rp[i].route_id = rid].pattern
        InCsv(rid) == \E j \in DOMAIN df.routes_csv : df.routes_csv[j].route_id = rid
        TypeOf(rid) == df.routes_csv[CHOOSE j \in DOMAIN df.routes_csv :
                                         df.routes_csv[j].route_id = rid].route_type
        Fare(rid) == IF ~InCsv(rid) THEN BASE_TRANSIT_FARE
                     ELSE IF TypeOf(rid) = 1 THEN BASE_TRANSIT_FARE ELSE BASE_BUS_FARE
    IN  [ rid \in ids |-> [ stop_pattern |-> PatternOf(rid), base_fare |-> Fare(rid) ] ]

\* stop_routes as the loader pickles it (part 1), read back into stop_to_routes
RECURSIVE BuildStopRoutes(_, _)
BuildStopRoutes(rp, stop) ==
    IF rp = << >> THEN << >>
    ELSE LET here == SelectSeq(Head(rp).pattern, LAMBDA x : x = stop)
         IN  [ i \in 1..Len(here) |-> Head(rp).route_id ]
             \o BuildStopRoutes(Tail(rp), stop)

LoadStopToRoutes(df) ==
    LET rp == IF df.has_raptor THEN df.route_patterns ELSE << >>
        served == UNION { Range(rp[i].pattern) : i \in DOMAIN rp }
    IN  [ s \in served |-> BuildStopRoutes(rp, s) ]

\* the route a trip is filed under: the first route, in dict order, whose
\* non-empty pattern holds the trip's first stop
RouteOfTrip(rp, first_stop) ==
    LET hits == { i \in DOMAIN rp : rp[i].pattern # << >> /\ first_stop \in Range(rp[i].pattern) }
    IN  IF hits = {} THEN None
        ELSE rp[CHOOSE i \in hits : \A j \in hits : i <= j].route_id

LoadTrips(df) ==
    LET ts == IF df.has_raptor THEN df.trip_schedules ELSE << >>
        rp == df.route_patterns
        kept == { i \in DOMAIN ts : Len(ts[i].schedule) > 0 }
        ids == { ts[i].trip_id : i \in kept }
        SchedOf(tid) == ts[CHOOSE i \in kept : ts[i].trip_id = tid].schedule
        Rid(tid) == RouteOfTrip(rp, SchedOf(tid)[1].stop_id)
    IN  [ tid \in ids |-> [ route_id |-> IF Rid(tid) = None THEN "unknown" ELSE Rid(tid),
                            stop_times |-> SchedOf(tid) ] ]

\* route_to_trips: appended in trip_schedules order, then sorted by first
\* departure (_build_optimized_structures)
LoadRouteToTrips(df) ==
    LET ts == IF df.has_raptor THEN df.trip_schedules ELSE << >>
        rp == df.route_patterns
        live == SelectSeq(ts, LAMBDA t : Len(t.schedule) > 0)
        Rid(t) == RouteOfTrip(rp, t.schedule[1].stop_id)
        filed == { Rid(live[i]) : i \in DOMAIN live } \ { None }
        Entries(rid) ==
            LET mine == SelectSeq(live, LAMBDA t : Rid(t) = rid)
            IN  [ i \in 1..Len(mine) |-> << mine[i].trip_id, mine[i].schedule[1].departure_time >> ]
    IN  [ rid \in filed |-> SortedBy(Entries(rid), 2) ]

\* _haversine_distance, on the line, in metres
Distance(p, q) == Abs(p - q)

\* _find_nearby_stops(stop, 0.3): the other stops within 300 m, nearest first
FindNearbyStops(all, stop, max_distance) ==
    LET near == SelectSeq(all, LAMBDA o : o.stop_id # stop.stop_id
                                          /\ Distance(stop.pos, o.pos) <= max_distance)
        pairs == [ i \in 1..Len(near) |-> << near[i].stop_id, Distance(stop.pos, near[i].pos) >> ]
    IN  SortedBy(pairs, 2)

\* _optimize_transfers: the transfer table is rebuilt from the stop positions
OptimizeTransfers(all) ==
    LET Edges(stop) ==
            LET nearby == SelectSeq(FindNearbyStops(all, stop, 300),
                                    LAMBDA e : e[1] # stop.stop_id)
            IN  [ i \in 1..Len(nearby) |->
                    << nearby[i][1], Max2(2, Min2(8, nearby[i][2] \div 80)) >> ]
        with == { i \in DOMAIN all : Edges(all[i]) # << >> }
    IN  [ sid \in { all[i].stop_id : i \in with } |->
            Edges(all[CHOOSE i \in with : all[i].stop_id = sid]) ]

-----------------------------------------------------------------------------
(* RaptorLabel *)

RaptorLabel(arr, tr, cost, parent, trip, route, mode, rnd, board) ==
    [ arrival_time |-> arr, transfers |-> tr, cost |-> cost,
      parent_stop |-> parent, trip_id |-> trip, route_id |-> route,
      access_mode |-> mode, round_number |-> rnd, boarding_time |-> board ]

\* best_labels.get(stop_id): a set of at most one label
LabelOf(labels, s) == IF s \in DOMAIN labels THEN { labels[s] } ELSE {}

\* _is_label_better with the tolerance of the last rule taken strictly
IsLabelBetterStrictTolerance(new_arrival, new_transfers, new_cost, existing_label) ==
    IF existing_label = {} THEN TRUE
    ELSE LET existing == CHOOSE l \in existing_label : TRUE IN
        IF new_arrival < existing.arrival_time THEN TRUE
        ELSE IF new_arrival = existing.arrival_time
                /\ new_transfers < existing.transfers THEN TRUE
        ELSE IF new_arrival = existing.arrival_time
                /\ new_transfers = existing.transfers
                /\ new_cost < existing.cost THEN TRUE
        ELSE IF new_arrival < existing.arrival_time + 5
                /\ new_transfers < existing.transfers THEN TRUE
        ELSE FALSE

\* _is_label_better with a cost tie counted as better
IsLabelBetterCostTie(new_arrival, new_transfers, new_cost, existing_label) ==
    IF existing_label = {} THEN TRUE
    ELSE LET existing == CHOOSE l \in existing_label : TRUE IN
        IF new_arrival < existing.arrival_time THEN TRUE
        ELSE IF new_arrival = existing.arrival_time
                /\ new_transfers < existing.transfers THEN TRUE
        ELSE IF new_arrival = existing.arrival_time
                /\ new_transfers = existing.transfers
                /\ new_cost <= existing.cost THEN TRUE
        ELSE IF new_arrival <= existing.arrival_time + 5
                /\ new_transfers < existing.transfers THEN TRUE
        ELSE FALSE

\* _is_label_better
IsLabelBetter(new_arrival, new_transfers, new_cost, existing_label) ==
    IF existing_label = {} THEN TRUE
    ELSE LET existing == CHOOSE l \in existing_label : TRUE IN
        IF new_arrival < existing.arrival_time THEN TRUE
        ELSE IF new_arrival = existing.arrival_time
                /\ new_transfers < existing.transfers THEN TRUE
        ELSE IF new_arrival = existing.arrival_time
                /\ new_transfers = existing.transfers
                /\ new_cost < existing.cost THEN TRUE
        ELSE IF new_arrival <= existing.arrival_time + 5
                /\ new_transfers < existing.transfers THEN TRUE
        ELSE FALSE

-----------------------------------------------------------------------------
(* Route scanning *)

\* the inner loop of _find_best_trip_for_route without the test of the
\* departure time: index of the first stop_time at stop_id, 0 if none
FirstAtStop(stop_times, stop_id, t) ==
    LET hits == { i \in DOMAIN stop_times : stop_times[i].stop_id = stop_id }
    IN  IF hits = {} THEN 0 ELSE CHOOSE i \in hits : \A j \in hits : i <= j

\* the inner loop of _find_best_trip_for_route over one trip's stop_times:
\* index of the first stop_time at stop_id departing at or after t, 0 if none
FirstBoardable(stop_times, stop_id, t) ==
    LET hits == { i \in DOMAIN stop_times :
                    /\ stop_times[i].stop_id = stop_id
                    /\ stop_times[i].departure_time >= t }
    IN  IF hits = {} THEN 0 ELSE CHOOSE i \in hits : \A j \in hits : i <= j

\* the loop over the route's trips for one marked stop; best is the best
\* option so far, << >> while earliest_departure is still infinite
RECURSIVE BestOverTrips(_, _, _, _)
BestOverTrips(entries, stop_id, t, best) ==
    IF entries = << >> THEN best
    ELSE LET trip_id == Head(entries)[1]
             i == IF trip_id \in DOMAIN trips
                  THEN FirstBoardable(trips[trip_id].stop_times, stop_id, t) ELSE 0
             dep == trips[trip_id].stop_times[i].departure_time
             next == IF i # 0 /\ (best = << >> \/ dep < best[3])
                     THEN << trip_id, stop_id, dep >> ELSE best
         IN  BestOverTrips(Tail(entries), stop_id, t, next)

RECURSIVE BestOverStops(_, _, _, _)
BestOverStops(route_id, route_marked_stops, labels, best) ==
    IF route_marked_stops = << >> THEN best
    ELSE LET stop_id == Head(route_marked_stops)
             earliest_board_time == labels[stop_id].arrival_time + 1
         IN  BestOverStops(route_id, Tail(route_marked_stops), labels,
                           BestOverTrips(Get(route_to_trips, route_id, << >>),
                                         stop_id, earliest_board_time, best))

\* _find_best_trip_for_route: << trip_id, stop_id, departure >> or << >>
FindBestTripForRoute(route_id, marked, labels) ==
    LET route_marked_stops ==
            IF route_id \in DOMAIN routes
            THEN SelectSeq(routes[route_id].stop_pattern, LAMBDA x : x \in marked)
            ELSE << >>
    IN  BestOverStops(route_id, route_marked_stops, labels, << >>)

IdleScan ==
    [ route_id |-> None, trip_id |-> None, boarding_stop_id |-> None,
      boarding_time |-> 0, boarding_label |-> {}, idx |-> 0,
      boarding_found |-> FALSE, new_stops |-> {} ]

NoWrite == [ stop_id |-> None, old |-> {}, new |-> {} ]

\* the candidate of _scan_route with the transfer discount taken off at every
\* boarding
RouteCandidateDiscounted(boarding_label, base_fare) ==
    [ transfers |-> boarding_label.transfers + 1,
      cost |-> boarding_label.cost + base_fare - TRANSFER_DISCOUNT ]

\* the label _scan_route writes for a stop after the boarding stop
RouteCandidate(boarding_label, base_fare) ==
    [ transfers |-> boarding_label.transfers + 1,
      cost |-> IF boarding_label.transfers > 0
               THEN boarding_label.cost + base_fare - TRANSFER_DISCOUNT
               ELSE boarding_label.cost + base_fare ]

\* one iteration of the stop_time loop of _scan_route, at sc.idx
ScanStopTime(labels, order, sc, rnd) ==
    LET stop_time == trips[sc.trip_id].stop_times[sc.idx]
        boarding_label == CHOOSE l \in sc.boarding_label : TRUE
        c == RouteCandidate(boarding_label, routes[sc.route_id].base_fare)
        next == [ sc EXCEPT !.idx = sc.idx + 1 ]
        keep == [ labels |-> labels, order |-> order, scan |-> next, write |-> NoWrite ]
    IN  IF stop_time.stop_id = sc.boarding_stop_id
        THEN [ keep EXCEPT !.scan = [ next EXCEPT !.boarding_found = TRUE ] ]
        ELSE IF ~sc.boarding_found THEN keep
        ELSE IF stop_time.arrival_time <= sc.boarding_time THEN keep
        ELSE IF IsLabelBetter(stop_time.arrival_time, c.transfers, c.cost,
                              LabelOf(labels, stop_time.stop_id))
        THEN LET l == RaptorLabel(stop_time.arrival_time, c.transfers, c.cost,
                                  sc.boarding_stop_id, sc.trip_id, sc.route_id,
                                  "transit", rnd, sc.boarding_time)
             IN  [ labels |-> Put(labels, stop_time.stop_id, l),
                   order |-> Touch(order, stop_time.stop_id),
                   scan |-> [ next EXCEPT !.new_stops = @ \cup { stop_time.stop_id } ],
                   write |-> [ stop_id |-> stop_time.stop_id,
                               old |-> LabelOf(labels, stop_time.stop_id),
                               new |-> { l } ] ]
        ELSE keep

\* _scan_route from its first line to the stop_time loop: the scan of the
\* trip to board, or IdleScan when the route has nothing to scan
StartScan(route_id, marked, labels) ==
    LET best_trip == FindBestTripForRoute(route_id, marked, labels)
    IN  IF route_id \notin DOMAIN routes \/ best_trip = << >> THEN IdleScan
        ELSE [ route_id |-> route_id,
               trip_id |-> best_trip[1],
               boarding_stop_id |-> best_trip[2],
               boarding_time |-> best_trip[3],
               boarding_label |-> { labels[best_trip[2]] },
               idx |-> 1,
               boarding_found |-> FALSE,
               new_stops |-> {} ]

\* the whole stop_time loop of _scan_route
RECURSIVE RunScan(_, _, _, _)
RunScan(labels, order, sc, rnd) ==
    IF sc = IdleScan \/ sc.idx > Len(trips[sc.trip_id].stop_times)
    THEN [ labels |-> labels, order |-> order, new_stops |-> sc.new_stops ]
    ELSE LET r == ScanStopTime(labels, order, sc, rnd)
         IN  RunScan(r.labels, r.order, r.scan, rnd)

\* the inner loop of route scanning: the routes of one marked stop
RECURSIVE ScanRoutesOf(_, _, _, _)
ScanRoutesOf(route_list, marked, st, rnd) ==
    IF route_list = << >> THEN st
    ELSE LET route_id == Head(route_list)
             r == RunScan(st.labels, st.order,
                          StartScan(route_id, marked, st.labels), rnd)
             next == IF route_id \in st.scanned THEN st
                     ELSE [ labels |-> r.labels, order |-> r.order,
                            scanned |-> st.scanned \cup { route_id },
                            new_marked |-> st.new_marked \cup r.new_stops ]
         IN  ScanRoutesOf(Tail(route_list), marked, next, rnd)

\* route scanning of one round, the marked stops visited in stop_order
RECURSIVE RouteScanning(_, _, _, _)
RouteScanning(stop_order, marked, st, rnd) ==
    IF stop_order = << >> THEN st
    ELSE RouteScanning(Tail(stop_order), marked,
                       ScanRoutesOf(Get(stop_to_routes, Head(stop_order), << >>),
                                    marked, st, rnd),
                       rnd)

-----------------------------------------------------------------------------
(* Transfer scanning *)

\* the two nested loops of _process_transfers, flattened: for every stop of
\* the snapshot, in dict order, every transfer edge of it, in list order
RECURSIVE TransferWork(_)
TransferWork(order) ==
    IF order = << >> THEN << >>
    ELSE LET stop_id == Head(order)
             edges == Get(transfers, stop_id, << >>)
         IN  [ i \in 1..Len(edges) |-> << stop_id, edges[i][1], edges[i][2] >> ]
             \o TransferWork(Tail(order))

\* what reading the edges of the labelled stops leaves in self.transfers, a
\* defaultdict(list): indexing it with a missing key would insert the key, and
\* the membership test before the indexing keeps the table as it was
TransferLookupUnguarded(table, order) ==
    [ s \in DOMAIN table \cup Range(order) |-> Get(table, s, << >>) ]

TransferLookup(table, order) ==
    [ s \in DOMAIN table \cup { x \in Range(order) : x \in DOMAIN table } |->
        table[s] ]

\* one iteration of the inner loop of _process_transfers, were the source
\* label read from best_labels and not from the copy taken before the loop
RelaxTransferLive(labels, order, snapshot, edge, rnd) ==
    LET stop_id == edge[1]
        transfer_stop_id == edge[2]
        label == labels[stop_id]
        new_arrival == label.arrival_time + edge[3]
    IN  IF IsLabelBetter(new_arrival, label.transfers, label.cost,
                         LabelOf(labels, transfer_stop_id))
        THEN LET l == RaptorLabel(new_arrival, label.transfers, label.cost,
                                  stop_id, label.trip_id, label.route_id,
                                  label.access_mode, rnd, label.boarding_time)
             IN  [ labels |-> Put(labels, transfer_stop_id, l),
                   order |-> Touch(order, transfer_stop_id),
                   new_stops |-> { transfer_stop_id },
                   write |-> [ stop_id |-> transfer_stop_id,
                               old |-> LabelOf(labels, transfer_stop_id),
                               new |-> { l } ] ]
        ELSE [ labels |-> labels, order |-> order, new_stops |-> {},
               write |-> NoWrite ]

\* one iteration of the inner loop of _process_transfers
RelaxTransfer(labels, order, snapshot, edge, rnd) ==
    LET stop_id == edge[1]
        transfer_stop_id == edge[2]
        label == snapshot[stop_id]
        new_arrival == label.arrival_time + edge[3]
    IN  IF IsLabelBetter(new_arrival, label.transfers, label.cost,
                         LabelOf(labels, transfer_stop_id))
        THEN LET l == RaptorLabel(new_arrival, label.transfers, label.cost,
                                  stop_id, label.trip_id, label.route_id,
                                  label.access_mode, rnd, label.boarding_time)
             IN  [ labels |-> Put(labels, transfer_stop_id, l),
                   order |-> Touch(order, transfer_stop_id),
                   new_stops |-> { transfer_stop_id },
                   write |-> [ stop_id |-> transfer_stop_id,
                               old |-> LabelOf(labels, transfer_stop_id),
                               new |-> { l } ] ]
        ELSE [ labels |-> labels, order |-> order, new_stops |-> {},
               write |-> NoWrite ]

-----------------------------------------------------------------------------
(* Round 0 and result collection *)

\* Round 0 of _execute_raptor_algorithm: every access entry, in list order,
\* writes the label of its stop
RECURSIVE SeedLabels(_, _, _, _)
SeedLabels(labels, order, access, dep) ==
    IF access = << >> THEN [ labels |-> labels, order |-> order ]
    ELSE LET a == Head(access)
             l == RaptorLabel(dep + a.access_time, 0, 0, None, None, None,
                              a.mode, 0, 0)
         IN  SeedLabels(Put(labels, a.stop_id, l), Touch(order, a.stop_id),
                        Tail(access), dep)

\* the result loop of _execute_raptor_algorithm, were total_time the time to
\* the egress stop only
RECURSIVE CollectResultsAtStop(_, _, _)
CollectResultsAtStop(egress, labels, dep) ==
    IF egress = << >> THEN << >>
    ELSE LET e == Head(egress)
             rest == CollectResultsAtStop(Tail(egress), labels, dep)
         IN  IF e.stop_id \in DOMAIN labels
             THEN LET label == labels[e.stop_id]
                  IN  << [ dest_stop_id |-> e.stop_id,
                           arrival_time |-> label.arrival_time,
                           total_time |-> label.arrival_time - dep,
                           transfers |-> label.transfers,
                           cost |-> label.cost,
                           trip_id |-> label.trip_id,
                           route_id |-> label.route_id,
                           egress_time |-> e.egress_time,
                           egress_mode |-> e.mode ] >> \o rest
             ELSE rest

\* the result loop of _execute_raptor_algorithm
RECURSIVE CollectResults(_, _, _)
CollectResults(egress, labels, dep) ==
    IF egress = << >> THEN << >>
    ELSE LET e == Head(egress)
             rest == CollectResults(Tail(egress), labels, dep)
         IN  IF e.stop_id \in DOMAIN labels
             THEN LET label == labels[e.stop_id]
                  IN  << [ dest_stop_id |-> e.stop_id,
                           arrival_time |-> label.arrival_time,
                           total_time |-> (label.arrival_time - dep) + e.egress_time,
                           transfers |-> label.transfers,
                           cost |-> label.cost,
                           trip_id |-> label.trip_id,
                           route_id |-> label.route_id,
                           egress_time |-> e.egress_time,
                           egress_mode |-> e.mode ] >> \o rest
             ELSE rest

-----------------------------------------------------------------------------
(* Journeys and the Journey Selector *)

\* Journey: the fields the selector reads, and `via`, a list of names, for
\* what else tells two journeys apart (segments, coordinates); equality is
\* dataclass equality
Journey(type, time, cost, ntransfers, dep, via) ==
    [ journey_type |-> type, total_time |-> time, total_cost |-> cost,
      total_transfers |-> ntransfers, departure_time |-> dep,
      arrival_time |-> dep + time, pareto_rank |-> 1, via |-> via ]

\* one dict of Journey.segments; "origin" and "destination" stand for the
\* two marker strings of the source, a stop or a station stands for its name
Segment(mode, from, to, duration, cost) ==
    [ mode |-> mode, from |-> from, to |-> to, duration |-> duration,
      cost |-> cost ]

\* the Journey with its segments list
WithSegments(journey, segments) ==
    [ f \in DOMAIN journey \cup { "segments" } |->
        IF f = "segments" THEN segments ELSE journey[f] ]

\* the three segments of _reconstruct_journey_from_raptor
TransitSegments(result, dep) ==
    LET access_time == Max2(3, result.total_time - result.arrival_time + dep)
        transit_time == Max2(5, result.arrival_time - dep - access_time)
    IN  << Segment("walk", "origin", "boarding", Max2(3, access_time), 0),
           Segment("transit", "boarding", result.dest_stop_id, transit_time,
                   result.cost),
           Segment("walk", result.dest_stop_id, "destination",
                   Max2(2, result.egress_time), 0) >>

\* _reconstruct_journey_from_raptor: a list of no or one Journey
ReconstructJourney(result, dep) ==
    IF result.trip_id = None \/ result.route_id = None THEN << >>
    ELSE IF result.route_id \notin DOMAIN routes THEN << >>
    ELSE << WithSegments(
              Journey("transit", Max2(10, result.total_time), result.cost,
                      result.transfers, dep, << result.dest_stop_id >>),
              TransitSegments(result, dep)) >>

RECURSIVE ReconstructAll(_, _)
ReconstructAll(raptor_results, dep) ==
    IF raptor_results = << >> THEN << >>
    ELSE ReconstructJourney(Head(raptor_results), dep)
         \o ReconstructAll(Tail(raptor_results), dep)

\* min(seq, key=Key): the first element with the least key
FirstMin(seq, key) ==
    seq[CHOOSE i \in DOMAIN seq :
          /\ \A j \in DOMAIN seq : seq[i][key] <= seq[j][key]
          /\ \A j \in 1..(i - 1) : seq[j][key] > seq[i][key]]

\* step 2 of _pareto_optimize for one group
GroupPicks(group_journeys) ==
    IF group_journeys = << >> THEN << >>
    ELSE LET best_time == FirstMin(group_journeys, "total_time")
             best_cost == FirstMin(group_journeys, "total_cost")
             best_transfer == FirstMin(group_journeys, "total_transfers")
         IN  << best_time >>
             \o (IF best_cost # best_time THEN << best_cost >> ELSE << >>)
             \o (IF best_transfer \notin { best_time, best_cost }
                 THEN << best_transfer >> ELSE << >>)

\* _are_journeys_similar, were no two journeys similar
NeverSimilar(journey1, journey2) == FALSE

\* _are_journeys_similar
AreJourneysSimilar(journey1, journey2) ==
    /\ Abs(journey1.total_time - journey2.total_time) <= 5
    /\ Abs(journey1.total_cost - journey2.total_cost) <= 200
    /\ Abs(journey1.total_transfers - journey2.total_transfers) <= 1
    /\ journey1.journey_type = journey2.journey_type

\* step 3 of _pareto_optimize
RECURSIVE RemoveDuplicates(_, _)
RemoveDuplicates(pareto_optimal, unique_journeys) ==
    IF pareto_optimal = << >> THEN unique_journeys
    ELSE LET journey == Head(pareto_optimal)
             is_duplicate == \E i \in DOMAIN unique_journeys :
                                AreJourneysSimilar(journey, unique_journeys[i])
         IN  RemoveDuplicates(Tail(pareto_optimal),
                              IF is_duplicate THEN unique_journeys
                              ELSE Append(unique_journeys, journey))

\* _calculate_multi_criteria_score with the default weights 0.5, 0.2, 0.3,
\* times 30000 so that it stays an integer
MultiCriteriaScore(journey) ==
    5 * Min2(50 * journey.total_time, 3000)
    + 2 * Min2(journey.total_cost, 3000)
    + 3 * Min2(1000 * journey.total_transfers, 3000)

\* step 1 of _pareto_optimize: the groups dict, keys in this order
JourneyTypes == << "walk", "bike", "transit", "mixed" >>

GroupOf(journeys, t) == SelectSeq(journeys, LAMBDA j : j.journey_type = t)

RECURSIVE AllPicks(_, _)
AllPicks(journeys, types) ==
    IF types = << >> THEN << >>
    ELSE GroupPicks(GroupOf(journeys, Head(types)))
         \o AllPicks(journeys, Tail(types))

\* _pareto_optimize
ParetoOptimize(journeys) ==
    IF journeys = << >> THEN << >>
    ELSE LET pareto_optimal == AllPicks(journeys, JourneyTypes)
             unique_journeys == RemoveDuplicates(pareto_optimal, << >>)
             scored == [ i \in 1..Len(unique_journeys) |->
                           [ unique_journeys[i] EXCEPT
                               !.pareto_rank = MultiCriteriaScore(unique_journeys[i]) ] ]
         IN  SortedBy(scored, "pareto_rank")

\* min() of an empty sequence raises ValueError
MinRaises(seq) == seq = << >>

\* step 2 of _pareto_optimize for one group: does it raise
PicksRaiseUnguarded(group_journeys) == MinRaises(group_journeys)

PicksRaise(group_journeys) ==
    IF group_journeys = << >> THEN FALSE
    ELSE MinRaises(group_journeys)

\* _pareto_optimize ends in an exception instead of a list
ParetoRaises(journeys) ==
    IF journeys = << >> THEN FALSE
    ELSE \E i \in DOMAIN JourneyTypes : PicksRaise(GroupOf(journeys, JourneyTypes[i]))

\* step 1 of _diversify_routes keeping the highest pareto_rank of each type
RECURSIVE TypeWorst(_, _)
TypeWorst(journeys, type_best) ==
    IF journeys = << >> THEN type_best
    ELSE LET journey == Head(journeys)
             at == { i \in DOMAIN type_best :
                       type_best[i].journey_type = journey.journey_type }
             next == IF at = {} THEN Append(type_best, journey)
                     ELSE LET i == CHOOSE i \in at : TRUE
                          IN  IF journey.pareto_rank > type_best[i].pareto_rank
                              THEN [ type_best EXCEPT ![i] = journey ]
                              ELSE type_best
         IN  TypeWorst(Tail(journeys), next)

\* step 1 of _diversify_routes: type_best, as the list of its values in
\* insertion order
RECURSIVE TypeBest(_, _)
TypeBest(journeys, type_best) ==
    IF journeys = << >> THEN type_best
    ELSE LET journey == Head(journeys)
             at == { i \in DOMAIN type_best :
                       type_best[i].journey_type = journey.journey_type }
             next == IF at = {} THEN Append(type_best, journey)
                     ELSE LET i == CHOOSE i \in at : TRUE
                          IN  IF journey.pareto_rank < type_best[i].pareto_rank
                              THEN [ type_best EXCEPT ![i] = journey ]
                              ELSE type_best
         IN  TypeBest(Tail(journeys), next)

\* _diversify_routes without the sort of its last line
DiversifyRoutesUnsorted(journeys, max) ==
    IF Len(journeys) <= max THEN journeys
    ELSE LET diversified == TypeBest(journeys, << >>)
             remaining_slots == max - Len(diversified)
             remaining_journeys ==
                 SelectSeq(journeys, LAMBDA j : j \notin Range(diversified))
         IN  diversified \o SliceTo(remaining_journeys, remaining_slots)

\* _diversify_routes
DiversifyRoutes(journeys, max) ==
    IF Len(journeys) <= max THEN journeys
    ELSE LET diversified == TypeBest(journeys, << >>)
             remaining_slots == max - Len(diversified)
             remaining_journeys ==
                 SelectSeq(journeys, LAMBDA j : j \notin Range(diversified))
         IN  SortedBy(diversified \o SliceTo(remaining_journeys, remaining_slots),
                      "pareto_rank")

\* the sub-lists of a list: some elements dropped, the order kept
SubLists(pool) ==
    { LET kept == SelectSeq([ i \in DOMAIN pool |-> << i, pool[i] >> ],
                            LAMBDA e : e[1] \in keep)
      IN  [ i \in DOMAIN kept |-> kept[i][2] ] : keep \in SUBSET DOMAIN pool }

-----------------------------------------------------------------------------
(* _find_access_stops *)

\* _find_nearby_stops_from_point / _find_nearby_bike_stations: the places
\* within max_distance of a point, nearest first, as << id, distance >>
FindNearbyFromPoint(places, id_field, point, max_distance) ==
    LET near == SelectSeq(places, LAMBDA o : Distance(point, o.pos) <= max_distance)
        pairs == [ i \in 1..Len(near) |-> << near[i][id_field], Distance(point, near[i].pos) >> ]
    IN  SortedBy(pairs, 2)

AccessEntry(s, t, m) ==
    [ stop_id |-> s, access_time |-> t, egress_time |-> t, mode |-> m ]

\* the walking entries: every stop within max_walk_time at WALK_SPEED
WalkAccess(point, max_walk_time) ==
    LET nearby_stops == FindNearbyFromPoint(stops, "stop_id", point,
                                            max_walk_time * WALK_M_PER_MIN)
        ok == SelectSeq(nearby_stops, LAMBDA e : e[2] <= max_walk_time * WALK_M_PER_MIN)
    IN  [ i \in 1..Len(ok) |-> AccessEntry(ok[i][1], ok[i][2] \div WALK_M_PER_MIN, "walk") ]

BikeStationPos(station_id) ==
    bike_stations[CHOOSE i \in DOMAIN bike_stations :
                    bike_stations[i].station_id = station_id].pos

\* the entries through one bike station: its two nearest stops within 300 m;
\* minutes = walk to the station + rental + ride + return, kept in 600ths
StationAccess(station, max_bike_time) ==
    LET station_nearby_stops ==
            SliceTo(FindNearbyFromPoint(stops, "stop_id",
                                        BikeStationPos(station[1]), 300), 2)
        Total600(e) == (600 \div WALK_M_PER_MIN) * station[2]
                       + (600 \div BIKE_M_PER_MIN) * e[2]
                       + 600 * (BIKE_RENTAL_TIME + BIKE_RENTAL_TIME)
        ok == SelectSeq(station_nearby_stops,
                        LAMBDA e : Total600(e) <= 600 * max_bike_time)
    IN  [ i \in 1..Len(ok) |-> AccessEntry(ok[i][1], Total600(ok[i]) \div 600, "bike") ]

RECURSIVE BikeAccess(_, _)
BikeAccess(near_stations, max_bike_time) ==
    IF near_stations = << >> THEN << >>
    ELSE StationAccess(Head(near_stations), max_bike_time)
         \o BikeAccess(Tail(near_stations), max_bike_time)

\* _find_access_stops: walking entries, then bike entries, sorted by time
FindAccessStops(point, with_bike, max_walk_time, max_bike_time) ==
    LET near_stations ==
            SliceTo(FindNearbyFromPoint(bike_stations, "station_id",
                                        point, 500), 3)
        access == WalkAccess(point, max_walk_time)
                  \o (IF with_bike THEN BikeAccess(near_stations, max_bike_time)
                      ELSE << >>)
    IN  SortedBy(access, "access_time")

-----------------------------------------------------------------------------
(* _calculate_road_route and _calculate_bike_cost.  Positions are metres on a
   line, distances are decimetres (so that the 1.3 detour factor stays whole)
   and durations are 6000ths of a minute: one metre is 80 units on foot and 30
   by bike. *)

\* edge attributes distance, walk_time, bike_time of _create_basic_road_network
\* and of the loader's _build_road_graph, per metre of edge
UnitsPerMetre(mode) == IF mode = "walk" THEN 6000 \div WALK_M_PER_MIN
                                        ELSE 6000 \div BIKE_M_PER_MIN

\* the straight-line result: haversine * 1.3 at the nominal speed
StraightLineRoute(a, b, mode) ==
    [ raised |-> FALSE,
      time_minutes |-> (13 * Distance(a, b) * UnitsPerMetre(mode)) \div 10,
      distance |-> 13 * Distance(a, b),
      coordinates |-> << a, b >> ]

\* _find_nearest_node: None, or the first node at the least distance
FindNearestNode(graph, point) ==
    IF graph.is_none \/ graph.nodes = << >> THEN {}
    ELSE LET ns == graph.nodes
             nearest == CHOOSE k \in DOMAIN ns :
                      /\ \A j \in DOMAIN ns :
                            Distance(point, ns[k]) <= Distance(point, ns[j])
                      /\ \A j \in 1..(k - 1) :
                            Distance(point, ns[j]) > Distance(point, ns[k])
         IN  { ns[nearest] }

\* the simple paths of the graph from one node to another
RoadPaths(graph, start_node, end_node) ==
    { p \in UNION { [ 1..n -> Range(graph.nodes) ] : n \in 1..Len(graph.nodes) } :
        /\ p[1] = start_node /\ p[Len(p)] = end_node
        /\ \A i, j \in DOMAIN p : i # j => p[i] # p[j]
        /\ \A i \in 1..(Len(p) - 1) : { p[i], p[i + 1] } \in graph.edges }

RECURSIVE PathMetres(_)
PathMetres(p) ==
    IF Len(p) < 2 THEN 0
    ELSE Distance(p[1], p[2]) + PathMetres(Tail(p))

\* nx.shortest_path: the exception raised, or the paths of least weight
ShortestPaths(graph, start_node, end_node) ==
    LET ps == RoadPaths(graph, start_node, end_node)
    IN  { p \in ps : \A q \in ps : PathMetres(p) <= PathMetres(q) }

ShortestPathRaises(graph, start_node, end_node) ==
    IF RoadPaths(graph, start_node, end_node) = {} THEN "NetworkXNoPath"
    ELSE None

\* the except clause of _calculate_road_route
CaughtNothing(exc) == FALSE

CaughtByRoadRoute(exc) == exc \in { "NetworkXNoPath", "NodeNotFound" }

UncaughtRoute ==
    [ raised |-> TRUE, time_minutes |-> 0, distance |-> 0, coordinates |-> << >> ]

\* _calculate_road_route: the results the call can have (one for each path of
\* least weight that networkx may return)
CalculateRoadRoute(graph, a, b, mode) ==
    IF graph.is_none THEN { StraightLineRoute(a, b, mode) }
    ELSE LET start_node == FindNearestNode(graph, a)
             end_node == FindNearestNode(graph, b)
         IN  IF start_node # {} /\ end_node # {}
             THEN LET s == CHOOSE n \in start_node : TRUE
                      e == CHOOSE n \in end_node : TRUE
                      exc == ShortestPathRaises(graph, s, e)
                  IN  IF exc # None
                      THEN IF CaughtByRoadRoute(exc)
                           THEN { StraightLineRoute(a, b, mode) }
                           ELSE { UncaughtRoute }
                      ELSE { [ raised |-> FALSE,
                               time_minutes |-> PathMetres(p) * UnitsPerMetre(mode),
                               distance |-> 10 * PathMetres(p),
                               coordinates |-> p ] :
                             p \in ShortestPaths(graph, s, e) }
             ELSE { StraightLineRoute(a, b, mode) }

\* math.ceil(a / b) and the floor it must not be
FloorDiv(a, b) == a \div b

CeilDiv(a, b) == (a + b - 1) \div b

\* _calculate_bike_cost
CalculateBikeCost(bike_time_minutes) ==
    IF bike_time_minutes <= 30 THEN BIKE_BASE_FARE
    ELSE LET extra_time == bike_time_minutes - 30
             extra_periods == CeilDiv(extra_time, 30)
         IN  BIKE_BASE_FARE + (extra_periods * 1000)

-----------------------------------------------------------------------------
(* Query inputs *)

\* origins and destinations of queries, metres along the line
PointList == << 75, 1300, 3000, 5075, 500 >>
Points == { PointList[i] : i \in 1..Min2(MaxPoints, Len(PointList)) }

DepartureTimes == { 0 }
MaxRoutesDefault == { 5 }
\* user_preferences['max_walk_time'] and ['max_bike_time']
WalkLimits == { 9, 15 }
BikeLimits == { 20 }

\* minutes _calculate_road_route may give for a walk between two different
\* points: they come from the road graph
WalkTimes == { 12 }

\* int() of a duration kept in 6000ths of a minute
Minutes(t) == t \div 6000

\* _find_walk_only_routes: within 2 km, a journey if the road graph gives a
\* walk of at most MAX_WALK_TIME; from a point to itself the walk takes no
\* time on any road graph.  First the generator that would leave that case
\* out.
WalkOnlyRoutesApart(origin, dest, dep) ==
    LET WalkJourney(t) ==
            WithSegments(Journey("walk", t, 0, 0, dep, << "road" >>),
                         << Segment("walk", "origin", "destination", t, 0) >>)
    IN  IF Distance(origin, dest) > 2000 \/ origin = dest THEN { << >> }
        ELSE { << >> } \cup { << WalkJourney(t) >> :
                                t \in { t \in WalkTimes : t <= MAX_WALK_TIME } }

WalkOnlyRoutes(origin, dest, dep) ==
    LET WalkJourney(t) ==
            WithSegments(Journey("walk", t, 0, 0, dep, << "road" >>),
                         << Segment("walk", "origin", "destination", t, 0) >>)
    IN  IF Distance(origin, dest) > 2000 THEN { << >> }
        ELSE IF origin = dest THEN { << WalkJourney(0) >> }
        ELSE { << >> } \cup { << WalkJourney(t) >> :
                                t \in { t \in WalkTimes : t <= MAX_WALK_TIME } }

\* the five segments of a bike journey, and a list whose ride would start at
\* the station it ends at
BikeSegmentsUnchained(start_name, end_name, walk_to_start_time, bike_time, walk_to_dest_time, bike_cost) ==
    << Segment("walk", "origin", start_name, Minutes(walk_to_start_time), 0),
       Segment("bike_rental", start_name, start_name, BIKE_RENTAL_TIME, 0),
       Segment("bike", end_name, end_name, Minutes(bike_time), bike_cost),
       Segment("bike_return", end_name, end_name, BIKE_RENTAL_TIME, 0),
       Segment("walk", end_name, "destination", Minutes(walk_to_dest_time), 0) >>

BikeSegments(start_name, end_name, walk_to_start_time, bike_time, walk_to_dest_time, bike_cost) ==
    << Segment("walk", "origin", start_name, Minutes(walk_to_start_time), 0),
       Segment("bike_rental", start_name, start_name, BIKE_RENTAL_TIME, 0),
       Segment("bike", start_name, end_name, Minutes(bike_time), bike_cost),
       Segment("bike_return", end_name, end_name, BIKE_RENTAL_TIME, 0),
       Segment("walk", end_name, "destination", Minutes(walk_to_dest_time), 0) >>

\* the body of the station loop of _find_bike_only_routes: no or one Journey
\* for a pair of stations; the three legs are routed where the road graph
\* does not join their endpoints, so each is the straight line
BikeJourney(origin, dest, dep, pair) ==
    LET walk_to_start == StraightLineRoute(origin, BikeStationPos(pair[1]),
                                           "walk").time_minutes
        ride == StraightLineRoute(BikeStationPos(pair[1]),
                                  BikeStationPos(pair[2]), "bike").time_minutes
        walk_to_dest == StraightLineRoute(BikeStationPos(pair[2]), dest,
                                          "walk").time_minutes
        total_time == Max2(10 * 6000,
                           walk_to_start + 6000 * BIKE_RENTAL_TIME + ride
                           + 6000 * BIKE_RENTAL_TIME + walk_to_dest)
        walk_to_start_time == Max2(2 * 6000, walk_to_start)
        bike_time == Max2(5 * 6000, ride)
        walk_to_dest_time == Max2(2 * 6000, walk_to_dest)
        bike_cost == CalculateBikeCost(CeilDiv(bike_time, 6000))
    IN  IF total_time <= 45 * 6000
        THEN << WithSegments(
                  Journey("bike", Minutes(total_time), bike_cost, 0, dep, pair),
                  BikeSegments(pair[1], pair[2], walk_to_start_time, bike_time,
                               walk_to_dest_time, bike_cost)) >>
        ELSE << >>

RECURSIVE BikeJourneys(_, _, _, _)
BikeJourneys(origin, dest, dep, pairs) ==
    IF pairs = << >> THEN << >>
    ELSE BikeJourney(origin, dest, dep, Head(pairs))
         \o BikeJourneys(origin, dest, dep, Tail(pairs))

\* _find_bike_only_routes: the pairs of distinct stations, three nearest of
\* each end
BikeOnlyRoutes(origin, dest, dep) ==
    LET origin_stations ==
            SliceTo(FindNearbyFromPoint(bike_stations, "station_id",
                                        origin, 500), 3)
        dest_stations ==
            SliceTo(FindNearbyFromPoint(bike_stations, "station_id",
                                        dest, 500), 3)
        n == Len(dest_stations)
        pairs == [ k \in 1..(Len(origin_stations) * n) |->
                     << origin_stations[((k - 1) \div n) + 1][1],
                        dest_stations[((k - 1) % n) + 1][1] >> ]
        usable == SelectSeq(pairs, LAMBDA e : e[1] # e[2])
    IN  { BikeJourneys(origin, dest, dep, usable) }

\* _find_mixed_routes: the arrival of the transit leg is the wall clock in
\* minutes since 1970 plus the ride, so no total_time is within the hour
MixedRoutes == << >>

-----------------------------------------------------------------------------
(* The engine *)

IdleQuery ==
    /\ access_stops = << >> /\ egress_stops = << >>
    /\ include_bike = FALSE /\ dep_time = 0 /\ max_routes = 0
    /\ best_labels = EmptyMap /\ label_order = << >>
    /\ marked_stops = {} /\ new_marked_stops = {} /\ scanned_routes = {}
    /\ round_num = 0 /\ pending_stops = {} /\ cur_routes = << >>
    /\ scan = IdleScan
    /\ current_labels = EmptyMap /\ transfer_queue = << >>
    /\ transfer_new_stops = {}
    /\ results = << >> /\ all_journeys = << >> /\ output = << >>
    /\ prev_round_labels = EmptyMap /\ last_write = NoWrite

Init ==
    /\ data_files \in DataFiles
    /\ stops = << >> /\ routes = EmptyMap /\ trips = EmptyMap
    /\ route_to_trips = EmptyMap /\ stop_to_routes = EmptyMap
    /\ transfers = EmptyMap /\ bike_stations = << >> /\ road_graph = None
    /\ pc = "construct" /\ raised = FALSE
    /\ IdleQuery
    /\ cand = << >>

\* __init__ / _load_all_data: an exception of a loading step is re-raised and
\* no engine object comes to exist
LoadAllData ==
    /\ pc = "construct"
    /\ routes' = LoadRoutes(data_files)
    /\ stop_to_routes' = LoadStopToRoutes(data_files)
    /\ trips' = LoadTrips(data_files)
    /\ route_to_trips' = LoadRouteToTrips(data_files)
    /\ IF data_files.csv_has_columns
       THEN /\ stops' = data_files.stops_csv
            /\ transfers' = OptimizeTransfers(data_files.stops_csv)
            /\ bike_stations' = data_files.bike_csv
            /\ road_graph' = IF data_files.has_road_graph THEN "loaded"
                             ELSE "basic_grid"
            /\ pc' = "ready"
            /\ UNCHANGED raised
       ELSE /\ raised' = TRUE
            /\ pc' = "failed"
            /\ UNCHANGED << stops, transfers, bike_stations, road_graph >>
    /\ UNCHANGED << data_files, queryVars, cand >>

\* find_routes steps 1-2, and step 3 up to the end of Round 0 of
\* _execute_raptor_algorithm
FindRoutes ==
    /\ pc = "ready"
    /\ \E origin \in Points, dest \in Points, bike \in BOOLEAN,
          walk_limit \in WalkLimits, bike_limit \in BikeLimits,
          dep \in DepartureTimes, mr \in MaxRoutesDefault :
        LET acc == FindAccessStops(origin, bike, walk_limit, bike_limit)
            egr == FindAccessStops(dest, bike, walk_limit, bike_limit)
        IN  /\ \E walk_journeys \in WalkOnlyRoutes(origin, dest, dep),
                  bike_journeys \in IF bike THEN BikeOnlyRoutes(origin, dest, dep)
                                    ELSE { << >> } :
                    all_journeys' = walk_journeys \o bike_journeys
            /\ cand' = << origin, dest >>
            /\ access_stops' = acc
            /\ egress_stops' = egr
            /\ include_bike' = bike
            /\ dep_time' = dep
            /\ max_routes' = mr
            /\ IF acc = << >> \/ egr = << >>
               THEN /\ pc' = "assemble"
                    /\ UNCHANGED << best_labels, label_order, marked_stops, round_num >>
               ELSE LET seeded == SeedLabels(EmptyMap, << >>, acc, dep)
                    IN  /\ best_labels' = seeded.labels
                        /\ label_order' = seeded.order
                        /\ marked_stops' = { acc[i].stop_id : i \in DOMAIN acc }
                        /\ round_num' = 1
                        /\ pc' = "round"
    /\ UNCHANGED << data_files, indexVars, raised, new_marked_stops,
                    scanned_routes, pending_stops, cur_routes, scan,
                    current_labels, transfer_queue, transfer_new_stops,
                    results, output, prev_round_labels, last_write >>

\* `for round_num in range(1, MAX_ROUNDS + 1)` is over, and the loop it would
\* be without its upper end
RoundsNeverExhausted(r) == FALSE

RoundsExhausted(r) == r > MAX_ROUNDS

\* head of the round loop
BeginRound ==
    /\ pc = "round"
    /\ IF RoundsExhausted(round_num) \/ marked_stops = {}
       THEN /\ pc' = "collect"
            /\ UNCHANGED << new_marked_stops, scanned_routes, pending_stops,
                            prev_round_labels >>
       ELSE /\ new_marked_stops' = {}
            /\ scanned_routes' = {}
            /\ pending_stops' = marked_stops
            /\ prev_round_labels' = best_labels
            /\ pc' = "scan"
    /\ UNCHANGED << data_files, indexVars, raised, inputVars, best_labels,
                    label_order, marked_stops, round_num, cur_routes, scan,
                    current_labels, transfer_queue, transfer_new_stops,
                    results, all_journeys, output, last_write, cand >>

\* `for stop_id in marked_stops`: a set is iterated in no particular order
VisitStop ==
    /\ pc = "scan" /\ cur_routes = << >>
    /\ \E stop_id \in pending_stops :
        /\ pending_stops' = pending_stops \ { stop_id }
        /\ cur_routes' = Get(stop_to_routes, stop_id, << >>)
    /\ UNCHANGED << data_files, indexVars, pc, raised, inputVars, best_labels,
                    label_order, marked_stops, new_marked_stops,
                    scanned_routes, round_num, scan, current_labels,
                    transfer_queue, transfer_new_stops, results, all_journeys,
                    output, prev_round_labels, last_write, cand >>

\* `for route_id in self.stop_to_routes.get(stop_id, [])`, and the start of
\* _scan_route for a route not scanned in this round
NextRoute ==
    /\ pc = "scan" /\ cur_routes # << >>
    /\ cur_routes' = Tail(cur_routes)
    /\ LET route_id == Head(cur_routes)
           started == StartScan(route_id, marked_stops, best_labels)
       IN  IF route_id \in scanned_routes
           THEN UNCHANGED << scanned_routes, scan, pc >>
           ELSE /\ scanned_routes' = scanned_routes \cup { route_id }
                /\ IF started = IdleScan
                   THEN UNCHANGED << scan, pc >>
                   ELSE /\ scan' = started
                        /\ pc' = "propagate"
    /\ UNCHANGED << data_files, indexVars, raised, inputVars, best_labels,
                    label_order, marked_stops, new_marked_stops, round_num,
                    pending_stops, current_labels, transfer_queue,
                    transfer_new_stops, results, all_journeys, output,
                    prev_round_labels, last_write, cand >>

\* one stop_time of the boarded trip; after the last one _scan_route returns
\* and its new_stops go into new_marked_stops
Propagate ==
    /\ pc = "propagate"
    /\ LET r == ScanStopTime(best_labels, label_order, scan, round_num)
           last == scan.idx = Len(trips[scan.trip_id].stop_times)
       IN  /\ best_labels' = r.labels
           /\ label_order' = r.order
           /\ last_write' = r.write
           /\ IF last
              THEN /\ new_marked_stops' = new_marked_stops \cup r.scan.new_stops
                   /\ scan' = IdleScan
                   /\ pc' = "scan"
              ELSE /\ scan' = r.scan
                   /\ UNCHANGED << new_marked_stops, pc >>
    /\ UNCHANGED << data_files, indexVars, raised, inputVars, marked_stops,
                    scanned_routes, round_num, pending_stops, cur_routes,
                    current_labels, transfer_queue, transfer_new_stops,
                    results, all_journeys, output, prev_round_labels, cand >>

\* the route loop is over: _process_transfers takes its snapshot
BeginTransfers ==
    /\ pc = "scan" /\ cur_routes = << >> /\ pending_stops = {}
    /\ current_labels' = best_labels
    /\ transfer_queue' = TransferWork(label_order)
    /\ transfer_new_stops' = {}
    /\ last_write' = NoWrite
    /\ pc' = "transfer"
    /\ transfers' = TransferLookup(transfers, label_order)
    /\ UNCHANGED << data_files, stops, routes, trips, route_to_trips,
                    stop_to_routes, bike_stations, road_graph, raised,
                    inputVars, best_labels,
                    label_order, marked_stops, new_marked_stops,
                    scanned_routes, round_num, pending_stops, cur_routes,
                    scan, results, all_journeys, output, prev_round_labels,
                    cand >>

\* one transfer edge of one snapshot stop
TransferStep ==
    /\ pc = "transfer" /\ transfer_queue # << >>
    /\ LET r == RelaxTransfer(best_labels, label_order, current_labels,
                              Head(transfer_queue), round_num)
       IN  /\ best_labels' = r.labels
           /\ label_order' = r.order
           /\ transfer_new_stops' = transfer_new_stops \cup r.new_stops
           /\ last_write' = r.write
    /\ transfer_queue' = Tail(transfer_queue)
    /\ UNCHANGED << data_files, indexVars, pc, raised, inputVars,
                    marked_stops, new_marked_stops, scanned_routes, round_num,
                    pending_stops, cur_routes, scan, current_labels, results,
                    all_journeys, output, prev_round_labels, cand >>

\* _process_transfers returns; end of the round
EndRound ==
    /\ pc = "transfer" /\ transfer_queue = << >>
    /\ marked_stops' = new_marked_stops \cup transfer_new_stops
    /\ new_marked_stops' = new_marked_stops \cup transfer_new_stops
    /\ current_labels' = EmptyMap
    /\ transfer_new_stops' = {}
    /\ last_write' = NoWrite
    /\ round_num' = round_num + 1
    /\ pc' = IF new_marked_stops \cup transfer_new_stops = {} THEN "collect" ELSE "round"
    /\ UNCHANGED << data_files, indexVars, raised, inputVars, best_labels,
                    label_order, scanned_routes, pending_stops, cur_routes,
                    scan, transfer_queue, results, all_journeys, output,
                    prev_round_labels, cand >>

\* the result loop of _execute_raptor_algorithm
Collect ==
    /\ pc = "collect"
    /\ results' = CollectResults(egress_stops, best_labels, dep_time)
    /\ pc' = "assemble"
    /\ UNCHANGED << data_files, indexVars, raised, inputVars, best_labels,
                    label_order, marked_stops, new_marked_stops,
                    scanned_routes, round_num, pending_stops, cur_routes,
                    scan, current_labels, transfer_queue, transfer_new_stops,
                    all_journeys, output, prev_round_labels, last_write, cand >>

\* find_routes steps 3-4: the transit journeys and the mixed ones are added
Assemble ==
    /\ pc = "assemble"
    /\ all_journeys' = all_journeys \o ReconstructAll(results, dep_time)
                       \o (IF include_bike THEN MixedRoutes ELSE << >>)
    /\ pc' = "select"
    /\ UNCHANGED << data_files, indexVars, raised, inputVars, best_labels,
                    label_order, marked_stops, new_marked_stops,
                    scanned_routes, round_num, pending_stops, cur_routes,
                    scan, current_labels, transfer_queue, transfer_new_stops,
                    results, output, prev_round_labels, last_write, cand >>

\* find_routes steps 5-6, ended by the return or by an exception
Select ==
    /\ pc = "select"
    /\ IF ParetoRaises(all_journeys)
       THEN /\ raised' = TRUE
            /\ UNCHANGED output
       ELSE /\ output' = DiversifyRoutes(ParetoOptimize(all_journeys), max_routes)
            /\ UNCHANGED raised
    /\ pc' = "returned"
    /\ UNCHANGED << data_files, indexVars, inputVars, best_labels,
                    label_order, marked_stops, new_marked_stops,
                    scanned_routes, round_num, pending_stops, cur_routes,
                    scan, current_labels, transfer_queue, transfer_new_stops,
                    results, all_journeys, prev_round_labels, last_write, cand >>

\* the caller has the list (or the exception); the query's state is dropped
Return ==
    /\ pc = "returned"
    /\ pc' = "ready"
    /\ raised' = FALSE
    /\ access_stops' = << >> /\ egress_stops' = << >>
    /\ include_bike' = FALSE /\ dep_time' = 0 /\ max_routes' = 0
    /\ best_labels' = EmptyMap /\ label_order' = << >>
    /\ marked_stops' = {} /\ new_marked_stops' = {} /\ scanned_routes' = {}
    /\ round_num' = 0 /\ pending_stops' = {} /\ cur_routes' = << >>
    /\ scan' = IdleScan
    /\ current_labels' = EmptyMap /\ transfer_queue' = << >>
    /\ transfer_new_stops' = {}
    /\ results' = << >> /\ all_journeys' = << >> /\ output' = << >>
    /\ prev_round_labels' = EmptyMap /\ last_write' = NoWrite
    /\ cand' = << >>
    /\ UNCHANGED << data_files, indexVars >>

Next ==
    \/ LoadAllData
    \/ FindRoutes
    \/ BeginRound
    \/ VisitStop
    \/ NextRoute
    \/ Propagate
    \/ BeginTransfers
    \/ TransferStep
    \/ EndRound
    \/ Collect
    \/ Assemble
    \/ Select
    \/ Return

Spec == Init /\ [][Next]_vars

\* the steps of the round loop of _execute_raptor_algorithm: the interpreter
\* runs the call on, so a step that can be taken is taken
RoundStep ==
    \/ BeginRound
    \/ VisitStop
    \/ NextRoute
    \/ Propagate
    \/ BeginTransfers
    \/ TransferStep
    \/ EndRound

SpecLive == Init /\ [][Next]_vars /\ WF_vars(RoundStep)

-----------------------------------------------------------------------------
(* The dominance rule on its own: _is_label_better over a range of candidates
   and incumbents, and one candidate of _scan_route and of _process_transfers
   applied twice to a label table *)

MaxTime == 7
MaxTransfersIn == 2
DomCosts == { 0, BASE_TRANSIT_FARE - TRANSFER_DISCOUNT, BASE_TRANSIT_FARE }

\* best_labels.get(stop_id) over the range: no label, or one
DomIncumbents ==
    { {} } \cup { { RaptorLabel(a, t, c, None, None, None, "walk", 0, 0) } :
                    a \in 0..MaxTime, t \in 0..MaxTransfersIn, c \in DomCosts }

\* label tables over the stops of TolFiles: P is the boarding stop of trip t1,
\* which reaches S at 12; M is 3 minutes on foot from S; S has a label or not
DomTables ==
    { [ s \in { "P", "M" } \cup (IF inc = {} THEN {} ELSE { "S" }) |->
          IF s = "P" THEN RaptorLabel(1, bt, 0, None, None, None, "walk", 0, 0)
          ELSE IF s = "M" THEN RaptorLabel(ma, mt, mc, "A", None, None, "walk", 1, 0)
          ELSE CHOOSE l \in inc : TRUE ] :
        bt \in 0..1, ma \in { 4, 9 }, mt \in 0..MaxTransfersIn,
        mc \in DomCosts \ { 0 },
        inc \in { {} } \cup { { RaptorLabel(a, t, c, "P", "t1", "L1", "transit", 1, 2) } :
                                a \in { 6, 7, 12, 13 }, t \in 0..MaxTransfersIn,
                                c \in DomCosts \ { 0 } } }

NoJudgement ==
    [ new_arrival |-> 0, new_transfers |-> 0, new_cost |-> 0, existing |-> {},
      judged |-> FALSE, result |-> FALSE ]

InitDom ==
    /\ data_files = TolFiles
    /\ routes = LoadRoutes(TolFiles)
    /\ stop_to_routes = LoadStopToRoutes(TolFiles)
    /\ trips = LoadTrips(TolFiles)
    /\ route_to_trips = LoadRouteToTrips(TolFiles)
    /\ stops = TolFiles.stops_csv
    /\ transfers = OptimizeTransfers(TolFiles.stops_csv)
    /\ bike_stations = TolFiles.bike_csv
    /\ road_graph = "loaded"
    /\ raised = FALSE
    /\ access_stops = << >> /\ egress_stops = << >>
    /\ include_bike = FALSE /\ dep_time = 0 /\ max_routes = 0
    /\ new_marked_stops = {} /\ scanned_routes = {}
    /\ pending_stops = {} /\ cur_routes = << >>
    /\ transfer_queue = << >> /\ transfer_new_stops = {}
    /\ results = << >> /\ all_journeys = << >> /\ output = << >>
    /\ prev_round_labels = EmptyMap /\ last_write = NoWrite
    /\ \/ /\ pc = "dom_judge"
          /\ best_labels = EmptyMap /\ label_order = << >>
          /\ marked_stops = {} /\ round_num = 0
          /\ scan = IdleScan /\ current_labels = EmptyMap
          /\ cand = << NoJudgement >>
       \/ /\ pc = "dom_route"
          /\ best_labels \in DomTables
          /\ label_order = << "P", "M" >>
                           \o (IF "S" \in DOMAIN best_labels THEN << "S" >> ELSE << >>)
          /\ marked_stops = { "P" } /\ round_num = 2
          \* _scan_route on L1 has boarded t1 at P and is at the stop_time of S
          /\ scan = [ StartScan("L1", { "P" }, best_labels) EXCEPT
                        !.idx = 2, !.boarding_found = TRUE ]
          /\ current_labels = best_labels
          /\ cand = << >>

\* _is_label_better called on one candidate and one incumbent
Judge ==
    /\ pc = "dom_judge"
    /\ \E a \in 0..MaxTime, t \in 0..MaxTransfersIn, c \in DomCosts,
          e \in DomIncumbents :
        cand' = << [ new_arrival |-> a, new_transfers |-> t, new_cost |-> c,
                     existing |-> e, judged |-> TRUE,
                     result |-> IsLabelBetter(a, t, c, e) ] >>
    /\ pc' = "dom_judged"
    /\ UNCHANGED << data_files, indexVars, raised, queryVars >>

\* what an application of a candidate saw and left: the label table and the
\* set of newly marked stops
Application(kind, stop_id, triple, labels_before, new_before, labels_after, new_after) ==
    [ kind |-> kind, stop_id |-> stop_id, candidate |-> triple,
      before |-> << labels_before, new_before >>,
      after |-> << labels_after, new_after >> ]

\* the stop_time iteration of _scan_route for S, run on the table as it is
ApplyRouteCandidate ==
    /\ pc \in { "dom_route", "dom_route_again" }
    /\ LET r == ScanStopTime(best_labels, label_order, scan, round_num)
           boarding_label == CHOOSE l \in scan.boarding_label : TRUE
           c == RouteCandidate(boarding_label, routes[scan.route_id].base_fare)
           stop_time == trips[scan.trip_id].stop_times[scan.idx]
       IN  /\ best_labels' = r.labels
           /\ label_order' = r.order
           /\ last_write' = r.write
           /\ scan' = [ r.scan EXCEPT !.idx = scan.idx ]
           /\ cand' = Append(cand,
                  Application("route", stop_time.stop_id,
                              << stop_time.arrival_time, c.transfers, c.cost >>,
                              best_labels, scan.new_stops, r.labels, r.scan.new_stops))
    /\ pc' = IF pc = "dom_route" THEN "dom_route_again" ELSE "dom_transfer"
    /\ UNCHANGED << data_files, indexVars, raised, inputVars, marked_stops,
                    new_marked_stops, scanned_routes, round_num, pending_stops,
                    cur_routes, current_labels, transfer_queue,
                    transfer_new_stops, results, all_journeys, output,
                    prev_round_labels >>

\* the iteration of _process_transfers for the edge M -> S, run on the table
\* as it is
ApplyTransferCandidate ==
    /\ pc \in { "dom_transfer", "dom_transfer_again" }
    /\ LET edge == Head(SelectSeq(TransferWork(<< "M" >>), LAMBDA w : w[2] = "S"))
           label == current_labels[edge[1]]
           r == RelaxTransfer(best_labels, label_order, current_labels, edge, round_num)
       IN  /\ best_labels' = r.labels
           /\ label_order' = r.order
           /\ last_write' = r.write
           /\ transfer_new_stops' = transfer_new_stops \cup r.new_stops
           /\ cand' = Append(cand,
                  Application("transfer", edge[2],
                              << label.arrival_time + edge[3], label.transfers, label.cost >>,
                              best_labels, transfer_new_stops,
                              r.labels, transfer_new_stops \cup r.new_stops))
    /\ pc' = IF pc = "dom_transfer" THEN "dom_transfer_again" ELSE "dom_done"
    /\ UNCHANGED << data_files, indexVars, raised, inputVars, marked_stops,
                    new_marked_stops, scanned_routes, round_num, pending_stops,
                    cur_routes, scan, current_labels, transfer_queue, results,
                    all_journeys, output, prev_round_labels >>

NextDom ==
    \/ Judge
    \/ ApplyRouteCandidate
    \/ ApplyTransferCandidate

SpecDom == InitDom /\ [][NextDom]_vars

-----------------------------------------------------------------------------
(* The Journey Selector on its own: _pareto_optimize and _diversify_routes over
   a range of candidate lists and of max_routes *)

MaxRoutesIn == 5

\* candidate journeys of each category
WalkPool == << Journey("walk", 12, 0, 0, 0, << "road" >>) >>
BikePool == << Journey("bike", 44, 1000, 0, 0, << "dock1", "dock2" >>),
              Journey("bike", 38, 2000, 0, 0, << "dock3", "dock2" >>) >>
TransitPool == << Journey("transit", 18, 2440, 2, 0, << "S" >>),
                 Journey("transit", 20, 2300, 2, 0, << "S", "M" >>),
                 Journey("transit", 30, 1200, 2, 0, << "M" >>),
                 Journey("transit", 40, 1370, 1, 0, << "A" >>) >>
MixedPool == << Journey("mixed", 30, 2370, 1, 0, << "dock1", "P" >>),
               Journey("mixed", 50, 2200, 1, 0, << "dock3", "P" >>) >>

\* all_journeys as find_routes assembles it: walk, bike, transit, mixed
SelCandidateLists ==
    { w \o b \o t \o m :
        w \in SubLists(WalkPool), b \in SubLists(BikePool),
        t \in SubLists(TransitPool), m \in SubLists(MixedPool) }

InitSel ==
    /\ data_files = NoIndexFiles
    /\ stops = NoIndexFiles.stops_csv
    /\ routes = EmptyMap /\ trips = EmptyMap
    /\ route_to_trips = EmptyMap /\ stop_to_routes = EmptyMap
    /\ transfers = OptimizeTransfers(NoIndexFiles.stops_csv)
    /\ bike_stations = << >> /\ road_graph = "basic_grid"
    /\ raised = FALSE
    /\ access_stops = << >> /\ egress_stops = << >>
    /\ include_bike = TRUE /\ dep_time = 0
    /\ best_labels = EmptyMap /\ label_order = << >>
    /\ marked_stops = {} /\ new_marked_stops = {} /\ scanned_routes = {}
    /\ round_num = 0 /\ pending_stops = {} /\ cur_routes = << >>
    /\ scan = IdleScan
    /\ current_labels = EmptyMap /\ transfer_queue = << >>
    /\ transfer_new_stops = {}
    /\ results = << >> /\ output = << >>
    /\ prev_round_labels = EmptyMap /\ last_write = NoWrite
    /\ cand = << >>
    /\ pc = "sel_input"
    /\ all_journeys \in SelCandidateLists
    /\ max_routes \in 0..MaxRoutesIn

\* find_routes step 5: cand holds optimized_journeys
ParetoStep ==
    /\ pc = "sel_input"
    /\ IF ParetoRaises(all_journeys)
       THEN /\ raised' = TRUE
            /\ pc' = "sel_done"
            /\ UNCHANGED cand
       ELSE /\ cand' = ParetoOptimize(all_journeys)
            /\ pc' = "sel_scored"
            /\ UNCHANGED raised
    /\ UNCHANGED << data_files, indexVars, queryVars >>

\* find_routes step 6
DiversifyStep ==
    /\ pc = "sel_scored"
    /\ output' = DiversifyRoutes(cand, max_routes)
    /\ pc' = "sel_done"
    /\ UNCHANGED << data_files, indexVars, raised, inputVars, best_labels,
                    label_order, marked_stops, new_marked_stops,
                    scanned_routes, round_num, pending_stops, cur_routes,
                    scan, current_labels, transfer_queue, transfer_new_stops,
                    results, all_journeys, prev_round_labels, last_write, cand >>

NextSel ==
    \/ ParetoStep
    \/ DiversifyStep

SpecSel == InitSel /\ [][NextSel]_vars

-----------------------------------------------------------------------------
(* Road routing and bike fares on their own: _calculate_road_route over a range
   of road graphs and endpoints, _calculate_bike_cost over a range of leg
   durations *)

MaxRoadNodes == 3
MaxBikeMinutes == 95

\* the value __init__ leaves in self.road_graph
NoRoadGraph == [ is_none |-> TRUE, nodes |-> << >>, edges |-> {} ]

RoadNodePositions == { 600 * i : i \in 0..(MaxRoadNodes - 1) }

\* the node lists a graph can hold, in insertion order
RoadNodeLists ==
    { seq \in UNION { [ 1..n -> RoadNodePositions ] : n \in 0..MaxRoadNodes } :
        \A i, j \in DOMAIN seq : i # j => seq[i] # seq[j] }

\* nx.Graph objects: every edge joins two different nodes of the graph
RoadGraphs ==
    { NoRoadGraph } \cup
    UNION { { [ is_none |-> FALSE, nodes |-> ns, edges |-> es ] :
                es \in SUBSET { e \in SUBSET Range(ns) : Cardinality(e) = 2 } } :
            ns \in RoadNodeLists }

RoadPoints == { 0, 300, 1300 }
RoadModes == { "walk", "bike" }

NoIndexState ==
    /\ data_files = NoIndexFiles
    /\ stops = NoIndexFiles.stops_csv
    /\ routes = EmptyMap /\ trips = EmptyMap
    /\ route_to_trips = EmptyMap /\ stop_to_routes = EmptyMap
    /\ transfers = OptimizeTransfers(NoIndexFiles.stops_csv)
    /\ bike_stations = << >>
    /\ raised = FALSE

InitCalc ==
    /\ NoIndexState
    /\ IdleQuery
    /\ \/ /\ pc = "road_input"
          /\ road_graph \in RoadGraphs
          /\ cand \in [ start : RoadPoints, end : RoadPoints, mode : RoadModes ]
       \/ /\ pc = "fare_input"
          /\ road_graph = NoRoadGraph
          /\ cand \in [ bike_time_minutes : 0..MaxBikeMinutes ]

RoadRouteStep ==
    /\ pc = "road_input"
    /\ \E r \in CalculateRoadRoute(road_graph, cand.start, cand.end, cand.mode) :
          cand' = [ start |-> cand.start, end |-> cand.end, mode |-> cand.mode,
                    result |-> r ]
    /\ pc' = "road_done"
    /\ UNCHANGED << data_files, indexVars, raised, queryVars >>

BikeCostStep ==
    /\ pc = "fare_input"
    /\ cand' = [ bike_time_minutes |-> cand.bike_time_minutes,
                 cost |-> CalculateBikeCost(cand.bike_time_minutes) ]
    /\ pc' = "fare_done"
    /\ UNCHANGED << data_files, indexVars, raised, queryVars >>

NextCalc ==
    \/ RoadRouteStep
    \/ BikeCostStep

SpecCalc == InitCalc /\ [][NextCalc]_vars

-----------------------------------------------------------------------------
(* The transfer table on its own: built by the loader (part 1,
   _build_transfers), pickled, and rebuilt by the engine (_optimize_transfers)
   over a range of stop lists *)

MaxIdxStops == 3

IdxStopIds == << "s1", "s2", "s3", "s4", "s5" >>
IdxPositions == { 0, 100, 400, 701 }

\* the stops table: stop_id is unique, positions may coincide
IdxStopLists ==
    UNION { { [ i \in 1..n |-> [ stop_id |-> IdxStopIds[i], pos |-> ps[i] ] ] :
                ps \in [ 1..n -> IdxPositions ] } : n \in 0..MaxIdxStops }

\* self.transfers[a].append((b, t)) of a defaultdict(list)
AppendTransfer(table, a, b, t) ==
    Put(table, a, Append(Get(table, a, << >>), << b, t >>))

\* the two appends of _build_transfers, and the one it must not stop at
AppendOneWay(table, a, b, t) == AppendTransfer(table, a, b, t)

AppendBothWays(table, a, b, t) ==
    AppendTransfer(AppendTransfer(table, a, b, t), b, a, t)

\* _build_transfers: every stop against the stops after it
RECURSIVE BuildTransfersFrom(_, _, _, _)
BuildTransfersFrom(all, i, j, table) ==
    IF i > Len(all) THEN table
    ELSE IF j > Len(all) THEN BuildTransfersFrom(all, i + 1, i + 2, table)
    ELSE LET distance == Distance(all[i].pos, all[j].pos)
             transfer_time == Min2(Max2(distance \div 80, 2), 8)
         IN  IF distance <= 300
             THEN BuildTransfersFrom(all, i, j + 1,
                      AppendBothWays(table, all[i].stop_id, all[j].stop_id,
                                     transfer_time))
             ELSE BuildTransfersFrom(all, i, j + 1, table)

BuildTransfers(all) == BuildTransfersFrom(all, 1, 2, EmptyMap)

InitIdx ==
    /\ data_files \in { [ stops_csv |-> sl, transfers |-> EmptyMap ] :
                          sl \in IdxStopLists }
    /\ stops = << >> /\ routes = EmptyMap /\ trips = EmptyMap
    /\ route_to_trips = EmptyMap /\ stop_to_routes = EmptyMap
    /\ transfers = EmptyMap /\ bike_stations = << >> /\ road_graph = None
    /\ raised = FALSE
    /\ IdleQuery
    /\ cand = << >>
    /\ pc = "loader"

\* part 1: the loader builds its transfer table and pickles it
LoaderBuildTransfers ==
    /\ pc = "loader"
    /\ data_files' = [ data_files EXCEPT
                         !.transfers = BuildTransfers(data_files.stops_csv) ]
    /\ pc' = "pickled"
    /\ UNCHANGED << indexVars, raised, queryVars, cand >>

\* part 2: the engine reads the stops and the pickled table, then replaces
\* the table by the one _optimize_transfers computes
EngineOptimizeTransfers ==
    /\ pc = "pickled"
    /\ stops' = data_files.stops_csv
    /\ transfers' = OptimizeTransfers(data_files.stops_csv)
    /\ pc' = "optimized"
    /\ UNCHANGED << data_files, routes, trips, route_to_trips, stop_to_routes,
                    bike_stations, road_graph, raised, queryVars, cand >>

NextIdx ==
    \/ LoaderBuildTransfers
    \/ EngineOptimizeTransfers

SpecIdx == InitIdx /\ [][NextIdx]_vars

-----------------------------------------------------------------------------
(* Properties of the dominance rule *)

\* C3 (label dominance rule): _is_label_better is true exactly when there is
\* no incumbent, or the candidate arrives earlier, or arrives at the same time
\* with fewer transfers, or at the same time with the same transfers and a
\* lower cost, or arrives at most 5 minutes later with fewer transfers
C3_DominanceRule ==
    pc = "dom_judged"
    => LET j == cand[1]
           inc == CHOOSE l \in j.existing : TRUE
       IN  j.result
           <=> \/ j.existing = {}
               \/ /\ j.existing # {}
                  /\ \/ j.new_arrival < inc.arrival_time
                     \/ /\ j.new_arrival = inc.arrival_time
                        /\ j.new_transfers < inc.transfers
                     \/ /\ j.new_arrival = inc.arrival_time
                        /\ j.new_transfers = inc.transfers
                        /\ j.new_cost < inc.cost
                     \/ /\ j.new_arrival <= inc.arrival_time + 5
                        /\ j.new_transfers < inc.transfers

\* a candidate exactly 5 minutes later than the incumbent, with fewer
\* transfers, was judged better
C3_Witness ==
    /\ pc = "dom_judged"
    /\ cand[1].existing # {}
    /\ \E inc \in cand[1].existing :
          /\ cand[1].new_arrival = inc.arrival_time + 5
          /\ cand[1].new_transfers < inc.transfers
    /\ cand[1].result

ApplyMode ==
    pc \in { "dom_route", "dom_route_again", "dom_transfer",
             "dom_transfer_again", "dom_done" }

\* the candidate of an application is the incumbent's (arrival, transfers, cost)
IdenticalToIncumbent(ap) ==
    /\ ap.stop_id \in DOMAIN ap.before[1]
    /\ ap.candidate = << ap.before[1][ap.stop_id].arrival_time,
                         ap.before[1][ap.stop_id].transfers,
                         ap.before[1][ap.stop_id].cost >>

\* C4 (dominance idempotence): in route scanning and in transfer scanning, a
\* candidate identical to the incumbent leaves the label table and the newly
\* marked stops as they were, and a candidate applied a second time leaves
\* what the first application left
C4_DominanceIdempotent ==
    ApplyMode
    => /\ \A i \in DOMAIN cand :
             IdenticalToIncumbent(cand[i]) => cand[i].after = cand[i].before
       /\ \A i \in DOMAIN cand :
             (i > 1 /\ cand[i].kind = cand[i - 1].kind)
             => cand[i].after = cand[i - 1].after

\* both kinds of candidate met an incumbent identical to them, and both were
\* applied twice
C4_Witness ==
    /\ pc = "dom_done" /\ Len(cand) = 4
    /\ cand[1].kind = "route" /\ IdenticalToIncumbent(cand[1])
    /\ cand[3].kind = "transfer" /\ IdenticalToIncumbent(cand[3])
    /\ cand[2].after = cand[1].after /\ cand[4].after = cand[3].after

-----------------------------------------------------------------------------
(* Properties of the RAPTOR rounds *)

\* C1 (monotonicity): at every point of a round, a stop that had a label when
\* the round began has a label whose arrival_time is not later than it was then
C1_ArrivalNeverIncreases ==
    \A s \in DOMAIN prev_round_labels :
        s \in DOMAIN best_labels
        => best_labels[s].arrival_time <= prev_round_labels[s].arrival_time

\* C2 (round cap): every label of the table has transfers <= MAX_ROUNDS - 1
C2_RoundCap ==
    \A s \in DOMAIN best_labels : best_labels[s].transfers <= MAX_ROUNDS - 1

\* the orders in which a `for` loop may go through a set
OrdersOf(S) ==
    { f \in [ 1..Cardinality(S) -> S ] :
        \A i, j \in 1..Cardinality(S) : f[i] = f[j] => i = j }

\* route scanning of the round is over, the transfer phase has not begun
RouteScanDone == pc = "scan" /\ pending_stops = {} /\ cur_routes = << >>

\* C5 (route-scan order independence): when route scanning of a round is
\* over, the label table and the newly marked stops are what every order of
\* visiting the marked stops gives from the labels the round began with
C5_ScanOrderIndependent ==
    RouteScanDone
    => \A stop_order \in OrdersOf(marked_stops) :
          LET r == RouteScanning(stop_order, marked_stops,
                                 [ labels |-> prev_round_labels, order |-> << >>,
                                   scanned |-> {}, new_marked |-> {} ],
                                 round_num)
          IN  r.labels = best_labels /\ r.new_marked = new_marked_stops

-----------------------------------------------------------------------------
(* Properties of find_routes and of construction *)

\* some category has no candidate
SomeCategoryEmpty ==
    \E i \in DOMAIN JourneyTypes : GroupOf(all_journeys, JourneyTypes[i]) = << >>

\* C9 (no-journey query): a query that ends with some category empty ends
\* without an exception, and with no candidate at all it returns the empty list
C9_NoJourneyEmptyList ==
    (pc = "returned" /\ SomeCategoryEmpty)
    => /\ ~raised
       /\ all_journeys = << >> => output = << >>

\* a query without access stops, without any candidate, has returned
C9_Witness ==
    /\ pc = "returned" /\ ~raised
    /\ access_stops = << >> /\ all_journeys = << >> /\ output = << >>

\* C10 (empty index is a configuration error): an engine whose index holds no
\* route, or that found no road graph, does not get past construction
C10_EmptyIndexIsError ==
    (routes = EmptyMap \/ ~data_files.has_road_graph)
    => pc \in { "construct", "failed" }

-----------------------------------------------------------------------------
(* Properties of the Journey Selector *)

SelReturned == pc = "sel_done" /\ ~raised

\* C6 (output size bound): the list _diversify_routes returns has at most
\* max_routes journeys, for every max_routes >= 0
C6_OutputSizeBound ==
    SelReturned => Len(output) <= max_routes

HasCategory(journeys, t) == \E i \in DOMAIN journeys : journeys[i].journey_type = t

AllFourCategories(journeys) ==
    \A i \in DOMAIN JourneyTypes : HasCategory(journeys, JourneyTypes[i])

\* C7 (selector diversity): with candidates of all four categories and
\* max_routes >= 4, the output has, for each category, a journey of it whose
\* score no scored journey of that category undercuts
C7_SelectorDiversity ==
    (SelReturned /\ AllFourCategories(all_journeys) /\ max_routes >= 4)
    => \A n \in DOMAIN JourneyTypes :
          \E i \in DOMAIN output :
              /\ output[i].journey_type = JourneyTypes[n]
              /\ \A k \in DOMAIN cand :
                    cand[k].journey_type = JourneyTypes[n]
                    => output[i].pareto_rank <= cand[k].pareto_rank

\* four categories, max_routes >= 4, and the list was trimmed
C7_Witness ==
    /\ SelReturned /\ AllFourCategories(all_journeys) /\ max_routes >= 4
    /\ Len(cand) > max_routes
    /\ Len(output) < Len(cand)
    /\ AllFourCategories(output)

\* C8 (sorted output): consecutive journeys of the returned list have
\* non-decreasing pareto_rank
C8_OutputSorted ==
    SelReturned
    => \A i \in 1..(Len(output) - 1) :
          output[i].pareto_rank <= output[i + 1].pareto_rank

\* a trimmed list that keeps a journey beyond the best of each category
C8_Witness ==
    /\ SelReturned
    /\ Len(cand) > max_routes
    /\ \E i, k \in DOMAIN output :
          /\ i < k
          /\ output[i].journey_type = output[k].journey_type
    /\ \E i \in 1..(Len(output) - 1) :
          output[i].pareto_rank < output[i + 1].pareto_rank


-----------------------------------------------------------------------------
(* Properties of road routing and of the bike fare *)

\* the nodes joined to a set of nodes by edges of the graph
RECURSIVE ReachableFrom(_, _)
ReachableFrom(graph, seen) ==
    LET more == seen \cup { n \in Range(graph.nodes) :
                              \E m \in seen : { m, n } \in graph.edges }
    IN  IF more = seen THEN seen ELSE ReachableFrom(graph, more)

RoadDone == pc = "road_done"

Unsnapped ==
    \/ FindNearestNode(road_graph, cand.start) = {}
    \/ FindNearestNode(road_graph, cand.end) = {}

Disconnected ==
    /\ ~road_graph.is_none
    /\ ~Unsnapped
    /\ \A s \in FindNearestNode(road_graph, cand.start) :
          FindNearestNode(road_graph, cand.end)
              \cap ReachableFrom(road_graph, { s }) = {}

NominalSpeed == IF cand.mode = "walk" THEN WALK_M_PER_MIN ELSE BIKE_M_PER_MIN

\* C11: _calculate_road_route never raises and its duration and distance are
\* never negative; with no road graph, an endpoint that snaps to no node, or
\* snapped nodes in different components, it returns the straight line: 1.3
\* times the distance between the endpoints, the time that distance takes at
\* the nominal speed of the mode, and the two endpoints as its path
C11_FallbackNeverFails ==
    RoadDone =>
        /\ ~cand.result.raised
        /\ cand.result.time_minutes >= 0
        /\ cand.result.distance >= 0
        /\ (road_graph.is_none \/ Unsnapped \/ Disconnected) =>
              /\ cand.result.distance = 13 * Distance(cand.start, cand.end)
              /\ cand.result.time_minutes * NominalSpeed
                    = cand.result.distance * 600
              /\ cand.result.coordinates = << cand.start, cand.end >>

\* two different endpoints snapped to nodes with no path between them, and the
\* straight line returned
C11_Witness ==
    /\ RoadDone
    /\ Disconnected
    /\ cand.start # cand.end
    /\ ~cand.result.raised
    /\ cand.result.coordinates = << cand.start, cand.end >>

\* C15: a bike leg of at most 30 minutes costs BIKE_BASE_FARE; a longer one
\* costs 1000 more for every started period of 30 minutes beyond the first
\* 30, so that 45 minutes cost BIKE_BASE_FARE + 1000
C15_BikeCostFormula ==
    pc = "fare_done" =>
        LET t == cand.bike_time_minutes
        IN  /\ t <= 30 => cand.cost = BIKE_BASE_FARE
            /\ t > 30 =>
                  \E k \in 1..MaxBikeMinutes :
                      /\ 30 * (k - 1) < t - 30
                      /\ t - 30 <= 30 * k
                      /\ cand.cost = BIKE_BASE_FARE + 1000 * k
            /\ t = 45 => cand.cost = BIKE_BASE_FARE + 1000

C15_Witness ==
    /\ pc = "fare_done"
    /\ cand.bike_time_minutes = 45
    /\ cand.cost = BIKE_BASE_FARE + 1000


-----------------------------------------------------------------------------
(* Properties of the transfer table *)

\* every edge of the table has its reverse with the same duration, and no edge
\* leaves and enters the same stop
SymmetricTable(table) ==
    \A a \in DOMAIN table : \A k \in DOMAIN table[a] :
        LET b == table[a][k][1]
            t == table[a][k][2]
        IN  /\ b # a
            /\ b \in DOMAIN table
            /\ \E m \in DOMAIN table[b] : table[b][m] = << a, t >>

HasSlowEdge(table) ==
    \E a \in DOMAIN table : \E k \in DOMAIN table[a] : table[a][k][2] > 2

\* C12: the transfer table the loader builds and the one the engine rebuilds
\* are symmetric, with equal durations in both directions, and free of
\* self-loops
C12_TransferSymmetry ==
    /\ pc \in { "pickled", "optimized" } => SymmetricTable(data_files.transfers)
    /\ pc = "optimized" => SymmetricTable(transfers)

\* three stops, two of them at the same place, with edges of more than the
\* minimum duration in both tables
C12_Witness ==
    /\ pc = "optimized"
    /\ Len(stops) >= 3
    /\ \E i, j \in DOMAIN stops : i # j /\ stops[i].pos = stops[j].pos
    /\ HasSlowEdge(data_files.transfers)
    /\ HasSlowEdge(transfers)


-----------------------------------------------------------------------------
(* Properties of the journeys *)

RECURSIVE SumOver(_, _)
SumOver(segments, field) ==
    IF segments = << >> THEN 0
    ELSE Head(segments)[field] + SumOver(Tail(segments), field)

\* C13: the total_time of every Journey the generators produce is the sum of
\* the durations of its segments, and its total_cost the sum of their costs
C13_TotalsAreSums ==
    \A i \in DOMAIN all_journeys :
        /\ all_journeys[i].total_time
              = SumOver(all_journeys[i].segments, "duration")
        /\ all_journeys[i].total_cost
              = SumOver(all_journeys[i].segments, "cost")

ChainedSegments(journey) ==
    /\ journey.segments # << >>
    /\ journey.segments[1].from = "origin"
    /\ journey.segments[Len(journey.segments)].to = "destination"
    /\ \A k \in 1..(Len(journey.segments) - 1) :
          journey.segments[k].to = journey.segments[k + 1].from

\* C14: every Journey find_routes returns has segments, the first leaving the
\* origin marker, the last reaching the destination marker, each ending where
\* the next begins
C14_SegmentChain ==
    (pc = "returned" /\ ~raised) =>
        \A i \in DOMAIN output : ChainedSegments(output[i])

\* a returned list with a bike journey of five segments and a transit journey
\* of three
C14_Witness ==
    /\ pc = "returned" /\ ~raised
    /\ \E i \in DOMAIN output : /\ output[i].journey_type = "bike"
                                /\ Len(output[i].segments) = 5
    /\ \E i \in DOMAIN output : /\ output[i].journey_type = "transit"
                                /\ Len(output[i].segments) = 3


SamePlaceQuery == pc = "returned" /\ cand[1] = cand[2]

-----------------------------------------------------------------------------
(* Properties of the index during queries *)

\* C17: once the engine is constructed, no step of any find_routes call
\* changes stops, routes, trips, route_to_trips, stop_to_routes, transfers,
\* bike_stations or the road graph, and every call starts from an empty label
\* table and marked set
C17_IndexReadOnly ==
    [][ /\ pc # "construct" => indexVars' = indexVars
        /\ pc' = "ready" => /\ best_labels' = EmptyMap
                            /\ label_order' = << >>
                            /\ marked_stops' = {} ]_vars

\* a query answered after transfer scanning went over labelled stops that
\* have no transfer edge, with the index as construction left it
C17_Witness ==
    /\ pc = "returned"
    /\ output # << >>
    /\ \E s \in DOMAIN best_labels : s \notin DOMAIN transfers
    /\ \E s \in DOMAIN best_labels : s \in DOMAIN transfers
    /\ transfers = OptimizeTransfers(stops)
    /\ routes = LoadRoutes(data_files)


-----------------------------------------------------------------------------
(* Properties of the loaded index *)

Loaded == pc \notin { "construct", "failed" }

\* C18: after loading, a route of the structure file whose pattern is empty
\* and a trip with fewer than two stop-times are in none of routes, trips and
\* route_to_trips, and loading has not failed on them
C18_DataQualityDrop ==
    /\ (data_files.csv_has_columns /\ pc # "construct") => Loaded
    /\ (Loaded /\ data_files.has_raptor) =>
          /\ \A i \in DOMAIN data_files.route_patterns :
                data_files.route_patterns[i].pattern = << >> =>
                    /\ data_files.route_patterns[i].route_id \notin DOMAIN routes
                    /\ data_files.route_patterns[i].route_id
                          \notin DOMAIN route_to_trips
          /\ \A i \in DOMAIN data_files.trip_schedules :
                Len(data_files.trip_schedules[i].schedule) < 2 =>
                    /\ data_files.trip_schedules[i].trip_id \notin DOMAIN trips
                    /\ \A r \in DOMAIN route_to_trips :
                          \A k \in DOMAIN route_to_trips[r] :
                              route_to_trips[r][k][1]
                                  # data_files.trip_schedules[i].trip_id


-----------------------------------------------------------------------------
(* Properties of the round loop *)

\* C19: a round begins only within the first MAX_ROUNDS rounds and with a
\* non-empty marked set, the loop is left at once when a round ends with no
\* stop improved by route or transfer scanning, and every round loop ends
C19_EngineTermination ==
    /\ [][ /\ (pc = "round" /\ pc' = "scan") =>
                /\ round_num \in 1..MAX_ROUNDS
                /\ marked_stops # {}
           /\ (pc = "transfer" /\ pc' # "transfer"
                 /\ new_marked_stops \cup transfer_new_stops = {}) =>
                pc' = "collect" ]_vars
    /\ (pc = "round") ~> (pc = "collect")

\* the loop left after its last round with stops still marked
C19_Witness ==
    /\ pc = "collect"
    /\ round_num = MAX_ROUNDS + 1
    /\ marked_stops # {}


\* round_num - 1 rounds are over, round 0 being the seeding of the access stops
RoundOver == pc \in { "round", "collect" }

\* C20: when round r is over, every label of the table has transfers <= r
C20_OneBoardingPerRound ==
    RoundOver =>
        \A s \in DOMAIN best_labels :
            best_labels[s].transfers <= round_num - 1

-----------------------------------------------------------------------------
(* Properties of the phases of a round *)

\* the boardings a scan of route_id may choose from: a marked stop of the
\* route's pattern, a trip of the route and a departure of that trip from the
\* stop, one minute or more after the arrival of the stop's label
Boardings(route_id) ==
    { b \in { << e[1], s, st.departure_time >> :
                e \in Range(Get(route_to_trips, route_id, << >>)),
                s \in marked_stops,
                st \in UNION { Range(trips[t].stop_times) : t \in DOMAIN trips } } :
        /\ route_id \in DOMAIN routes
        /\ b[2] \in Range(routes[route_id].stop_pattern)
        /\ b[1] \in DOMAIN trips
        /\ \E i \in DOMAIN trips[b[1]].stop_times :
              /\ trips[b[1]].stop_times[i].stop_id = b[2]
              /\ trips[b[1]].stop_times[i].departure_time = b[3]
        /\ b[3] >= best_labels[b[2]].arrival_time + 1 }

\* a route not yet scanned in this round is about to be scanned
ScanDue ==
    /\ pc = "scan" /\ cur_routes # << >>
    /\ Head(cur_routes) \notin scanned_routes

\* C22: the scan of a route boards one of the boardings open to it, one of
\* the least departure among them all, and boards nothing exactly when there
\* is none
C22_BestTripSelection ==
    [][ ScanDue =>
          LET open == Boardings(Head(cur_routes))
          IN  IF open = {} THEN pc' = "scan" /\ scan' = IdleScan
              ELSE /\ pc' = "propagate"
                   /\ << scan'.trip_id, scan'.boarding_stop_id,
                         scan'.boarding_time >> \in open
                   /\ \A b \in open : scan'.boarding_time <= b[3] ]_vars

\* a trip has just been boarded where two marked stops of the route had
\* boardings of different departure times
C22_Witness ==
    /\ pc = "propagate" /\ scan.idx = 1
    /\ \E b1, b2 \in Boardings(scan.route_id) : b1[2] # b2[2] /\ b1[3] # b2[3]

\* the stops whose label a step changes, adds or removes
Rewritten ==
    { s \in DOMAIN best_labels \cup DOMAIN best_labels' :
        \/ s \notin DOMAIN best_labels
        \/ s \notin DOMAIN best_labels'
        \/ best_labels'[s] # best_labels[s] }

\* C23: a step of the stop_time loop of a route scan rewrites no label but
\* that of its stop_time's stop, and that one only after the boarding stop;
\* the label it writes arrives at the scheduled arrival, later than the
\* boarding time, with one transfer more than the boarding label and the
\* boarding label's cost plus the route's fare, less TRANSFER_DISCOUNT exactly
\* when the boarding label has a transfer; and no label has a negative cost
C23_RouteScanCandidate ==
    [][ /\ \A s \in DOMAIN best_labels' : best_labels'[s].cost >= 0
        /\ pc = "propagate" =>
            LET stop_times == trips[scan.trip_id].stop_times
                stop_time == stop_times[scan.idx]
                boarding_label == best_labels[scan.boarding_stop_id]
                fare == routes[scan.route_id].base_fare
            IN  /\ Rewritten \subseteq { stop_time.stop_id }
                /\ Rewritten # {} =>
                    /\ \E i \in 1..(scan.idx - 1) :
                          stop_times[i].stop_id = scan.boarding_stop_id
                    /\ best_labels'[stop_time.stop_id].arrival_time
                          = stop_time.arrival_time
                    /\ stop_time.arrival_time > scan.boarding_time
                    /\ best_labels'[stop_time.stop_id].transfers
                          = boarding_label.transfers + 1
                    /\ best_labels'[stop_time.stop_id].cost
                          = IF boarding_label.transfers > 0
                            THEN boarding_label.cost + fare - TRANSFER_DISCOUNT
                            ELSE boarding_label.cost + fare ]_vars

\* a route scan has just replaced a label by one boarded from a label that
\* had a transfer already, so with the discount taken off
C23_Witness ==
    /\ pc \in { "propagate", "scan" }
    /\ last_write.old # {}
    /\ \E l \in last_write.new : l.transfers >= 2 /\ l.cost > 0

\* C24: a step of the transfer phase rewrites no label but that of the far
\* end of its edge, and the label it writes is made from the label its source
\* stop had when the phase began: that label's arrival plus the edge's
\* duration, its transfers and its cost; so a label written in the phase is
\* not walked on from in the same phase
C24_OneHopTransfers ==
    [][ (pc = "transfer" /\ transfer_queue # << >>) =>
          LET edge == Head(transfer_queue)
              source == current_labels[edge[1]]
          IN  /\ current_labels' = current_labels
              /\ Rewritten \subseteq { edge[2] }
              /\ Rewritten # {} =>
                  /\ best_labels'[edge[2]].arrival_time
                        = source.arrival_time + edge[3]
                  /\ best_labels'[edge[2]].transfers = source.transfers
                  /\ best_labels'[edge[2]].cost = source.cost
                  /\ best_labels'[edge[2]].parent_stop = edge[1] ]_vars

\* the phase has just written a label from a stop whose own label it had
\* rewritten before
C24_Witness ==
    /\ pc = "transfer"
    /\ \E l \in last_write.new :
          /\ l.parent_stop \in DOMAIN current_labels
          /\ best_labels[l.parent_stop] # current_labels[l.parent_stop]
          /\ l.arrival_time > current_labels[l.parent_stop].arrival_time

\* C25: the results are, in the order of the egress list, one entry for each
\* egress entry whose stop has a label and none for the others; its total_time
\* is the label's arrival less the departure time, plus the entry's egress
\* time, and its transfers and cost are the label's
C25_ResultCollection ==
    pc = "assemble" =>
        LET labelled == SelectSeq(egress_stops,
                                  LAMBDA e : e.stop_id \in DOMAIN best_labels)
        IN  /\ Len(results) = Len(labelled)
            /\ \A k \in DOMAIN results :
                  LET label == best_labels[labelled[k].stop_id]
                  IN  /\ results[k].dest_stop_id = labelled[k].stop_id
                      /\ results[k].total_time
                            = (label.arrival_time - dep_time) + labelled[k].egress_time
                      /\ results[k].transfers = label.transfers
                      /\ results[k].cost = label.cost

\* results collected where an egress stop has no label and a labelled one is
\* some minutes from the destination
C25_Witness ==
    /\ pc = "assemble"
    /\ \E i \in DOMAIN egress_stops : egress_stops[i].stop_id \notin DOMAIN best_labels
    /\ Len(results) >= 2
    /\ \E i \in DOMAIN results : results[i].egress_time > 0

-----------------------------------------------------------------------------
(* Properties of the Pareto step *)

\* two journeys of one category within 5 minutes, 200 won and one transfer of
\* each other
NearDuplicates(j1, j2) ==
    /\ j1.journey_type = j2.journey_type
    /\ j1.total_time - j2.total_time \in -5..5
    /\ j1.total_cost - j2.total_cost \in -200..200
    /\ j1.total_transfers - j2.total_transfers \in -1..1

\* one journey, before and after _pareto_optimize has given it its score
SameJourney(j1, j2) == [ j1 EXCEPT !.pareto_rank = j2.pareto_rank ] = j2

\* _pareto_optimize has returned its list, held by cand
ParetoReturned == pc = "sel_scored"

\* C26: no two journeys of the list _pareto_optimize returns are
\* near-duplicates, and for every category with a candidate the list holds a
\* candidate of the category than which none of the category is faster
C26_NearDuplicateRemoval ==
    ParetoReturned =>
        /\ \A i, j \in DOMAIN cand : i # j => ~NearDuplicates(cand[i], cand[j])
        /\ \A n \in DOMAIN JourneyTypes :
              (\E k \in DOMAIN all_journeys :
                    all_journeys[k].journey_type = JourneyTypes[n])
              => \E i \in DOMAIN cand :
                    /\ cand[i].journey_type = JourneyTypes[n]
                    /\ \E k \in DOMAIN all_journeys : SameJourney(cand[i], all_journeys[k])
                    /\ \A k \in DOMAIN all_journeys :
                          all_journeys[k].journey_type = JourneyTypes[n]
                          => cand[i].total_time <= all_journeys[k].total_time

\* the candidates held two near-duplicates, the cheaper of them the cheapest
\* of its category, and the list returned has the faster one only
C26_Witness ==
    /\ ParetoReturned
    /\ \E a, b \in DOMAIN all_journeys :
          /\ a # b /\ NearDuplicates(all_journeys[a], all_journeys[b])
          /\ all_journeys[b].total_time > all_journeys[a].total_time
          /\ \A k \in DOMAIN all_journeys :
                all_journeys[k].journey_type = all_journeys[b].journey_type
                => all_journeys[b].total_cost <= all_journeys[k].total_cost
          /\ \A i \in DOMAIN cand : ~SameJourney(cand[i], all_journeys[b])

-----------------------------------------------------------------------------
(* Properties of Round 0 *)

\* Round 0 is over and round 1 has not begun
Seeded == pc = "round" /\ round_num = 1

\* C28: after Round 0 every access stop is marked and its label has no
\* transfer, no cost and the arrival of the fastest of the stop's access
\* entries: the departure time plus the least access_time among them
C28_SeedingKeepsBestAccess ==
    Seeded =>
        \A i \in DOMAIN access_stops :
            LET stop_id == access_stops[i].stop_id
            IN  /\ stop_id \in marked_stops
                /\ stop_id \in DOMAIN best_labels
                /\ best_labels[stop_id].transfers = 0
                /\ best_labels[stop_id].cost = 0
                /\ \A k \in DOMAIN access_stops :
                      access_stops[k].stop_id = stop_id
                      => best_labels[stop_id].arrival_time
                            <= dep_time + access_stops[k].access_time

-----------------------------------------------------------------------------
(* The transit leg of the mixed routes: _find_simple_transit_route and      *)
(* _find_direct_routes, applied to a stop, a destination, a departure time  *)
(* and the wall clock; cand holds the input and then the options returned.  *)

MaxClockHours == 1

\* int(time.time() / 60): the minutes since 1970, at some hours of a day
WallClocks == { 29600000 + 60 * h : h \in 0..MaxClockHours }

\* the departure_time _find_mixed_routes passes: dep_time plus the minutes to
\* the stop, dep_time in minutes of the day
MixDepartures == { 6, 486 }

\* list.index(x) of a list that holds x
IndexOf(seq, x) ==
    CHOOSE i \in DOMAIN seq : seq[i] = x /\ \A j \in DOMAIN seq : seq[j] = x => i <= j

\* the dict _find_direct_routes appends for one common route
DirectRoute(route_id, origin_stop_id, dest_stop_id, now) ==
    LET stop_pattern == routes[route_id].stop_pattern
        station_count == IndexOf(stop_pattern, dest_stop_id)
                         - IndexOf(stop_pattern, origin_stop_id)
        estimated_time == station_count * 2
    IN  [ route_id |-> route_id,
          transfers |-> 0,
          cost |-> routes[route_id].base_fare,
          arrival_time |-> now + estimated_time ]

\* _find_direct_routes: common_routes is a set, gone through in some order;
\* every list it may return
FindDirectRoutes(origin_stop_id, dest_stop_id, now) ==
    LET origin_routes == Range(Get(stop_to_routes, origin_stop_id, << >>))
        dest_routes == Range(Get(stop_to_routes, dest_stop_id, << >>))
        common_routes == origin_routes \cap dest_routes
        appended ==
            { route_id \in common_routes :
                /\ route_id \in DOMAIN routes
                /\ origin_stop_id \in Range(routes[route_id].stop_pattern)
                /\ dest_stop_id \in Range(routes[route_id].stop_pattern)
                /\ IndexOf(routes[route_id].stop_pattern, dest_stop_id)
                      > IndexOf(routes[route_id].stop_pattern, origin_stop_id) }
    IN  { [ k \in 1..Cardinality(appended) |->
              DirectRoute(f[k], origin_stop_id, dest_stop_id, now) ] :
          f \in OrdersOf(appended) }

\* the inner loop of _find_simple_transit_route for one destination stop
SimpleOptions(dest_stop, route_infos, departure_time) ==
    LET ok == SelectSeq(route_infos, LAMBDA r : r.arrival_time >= departure_time)
    IN  [ k \in 1..Len(ok) |->
            [ dest_stop_id |-> dest_stop[1],
              duration |-> ok[k].arrival_time - departure_time,
              egress_metres |-> dest_stop[2],
              transfers |-> ok[k].transfers,
              cost |-> ok[k].cost,
              route_id |-> ok[k].route_id ] ]

\* the loop of _find_simple_transit_route over the destination stops: every
\* list of results it may build
RECURSIVE SimpleResults(_, _, _, _)
SimpleResults(origin_stop_id, dest_stops, departure_time, now) ==
    IF dest_stops = << >> THEN { << >> }
    ELSE { SimpleOptions(Head(dest_stops), route_infos, departure_time) \o rest :
             route_infos \in FindDirectRoutes(origin_stop_id, Head(dest_stops)[1], now),
             rest \in SimpleResults(origin_stop_id, Tail(dest_stops),
                                    departure_time, now) }

\* _find_simple_transit_route: every list it may return
FindSimpleTransitRoute(origin_stop_id, dest, departure_time, now) ==
    IF \A i \in DOMAIN stops : stops[i].stop_id # origin_stop_id THEN { << >> }
    ELSE LET dest_stops == SliceTo(FindNearbyFromPoint(stops, "stop_id", dest, 800), 5)
         IN  { SliceTo(SortedBy(l, "duration"), 3) :
                 l \in SimpleResults(origin_stop_id, dest_stops, departure_time, now) }

IndexedFiles == { ChainFiles, TolFiles, OrderFiles, LoopFiles }

InitMix ==
    /\ data_files \in IndexedFiles
    /\ stops = data_files.stops_csv
    /\ routes = LoadRoutes(data_files)
    /\ trips = LoadTrips(data_files)
    /\ route_to_trips = LoadRouteToTrips(data_files)
    /\ stop_to_routes = LoadStopToRoutes(data_files)
    /\ transfers = OptimizeTransfers(data_files.stops_csv)
    /\ bike_stations = data_files.bike_csv
    /\ road_graph = IF data_files.has_road_graph THEN "loaded" ELSE "basic_grid"
    /\ raised = FALSE
    /\ IdleQuery
    /\ pc = "mix_input"
    /\ cand \in [ origin_stop_id : { stops[i].stop_id : i \in DOMAIN stops },
                  dest : Points,
                  departure_time : MixDepartures,
                  now : WallClocks ]

\* _find_mixed_routes calls _find_simple_transit_route
SimpleTransitStep ==
    /\ pc = "mix_input"
    /\ \E r \in FindSimpleTransitRoute(cand.origin_stop_id, cand.dest,
                                       cand.departure_time, cand.now) :
          cand' = [ origin_stop_id |-> cand.origin_stop_id, dest |-> cand.dest,
                    departure_time |-> cand.departure_time, now |-> cand.now,
                    transit_options |-> r ]
    /\ pc' = "mix_done"
    /\ UNCHANGED << data_files, indexVars, raised, queryVars >>

NextMix == SimpleTransitStep

SpecMix == InitMix /\ [][NextMix]_vars

\* C27: every option of the simplified search rides a route on which the
\* destination stop comes after the origin stop, and its transit time is two
\* minutes for each stop between them, whatever the wall clock and the
\* departure time
C27_DirectRouteEstimate ==
    pc = "mix_done" =>
        \A k \in DOMAIN cand.transit_options :
            LET option == cand.transit_options[k]
                stop_pattern == routes[option.route_id].stop_pattern
                i == IndexOf(stop_pattern, cand.origin_stop_id)
                j == IndexOf(stop_pattern, option.dest_stop_id)
            IN  /\ i < j
                /\ option.duration = 2 * (j - i)

-----------------------------------------------------------------------------
(* Properties of the label table *)

\* the stop n back-pointers behind stop_id, None once a label without a
\* parent, or a stop without a label, has been passed
RECURSIVE Ancestor(_, _)
Ancestor(stop_id, n) ==
    IF n = 0 THEN stop_id
    ELSE LET p == Ancestor(stop_id, n - 1)
         IN  IF p \in DOMAIN best_labels THEN best_labels[p].parent_stop ELSE None

\* C29: following parent_stop from a labelled stop goes through labelled
\* stops, none of them twice, and ends at a label of Round 0, which has no
\* parent
C29_BackPointersAcyclic ==
    \A s \in DOMAIN best_labels :
        \E n \in 0..(Cardinality(DOMAIN best_labels) - 1) :
            /\ \A k \in 0..n : Ancestor(s, k) \in DOMAIN best_labels
            /\ \A k, m \in 0..n : Ancestor(s, k) = Ancestor(s, m) => k = m
            /\ best_labels[Ancestor(s, n)].parent_stop = None
            /\ best_labels[Ancestor(s, n)].round_number = 0

\* the value of a label: what _is_label_better compares
ValueOf(label) == << label.arrival_time, label.transfers, label.cost >>

\* C21 (no oscillation), for the value a stop's label had when a round began:
\* once that value has been replaced in the round, no step of the round gives
\* it back to the stop
C21_NoLabelOscillation ==
    [][ \A s \in DOMAIN prev_round_labels :
          ( /\ prev_round_labels' = prev_round_labels
            /\ s \in DOMAIN best_labels /\ s \in DOMAIN best_labels'
            /\ ValueOf(best_labels[s]) # ValueOf(prev_round_labels[s]) )
          => ValueOf(best_labels'[s]) # ValueOf(prev_round_labels[s]) ]_vars

-----------------------------------------------------------------------------
(* The reference search: earliest arrivals over the itineraries of the      *)
(* timetable, by exhaustive extension                                       *)

\* the least arrival of each stop among pairs << stop, arrival >>
LeastArrivals(pairs) ==
    [ s \in { p[1] : p \in pairs } |->
        CHOOSE a \in { p[2] : p \in { q \in pairs : q[1] = s } } :
            \A p \in pairs : p[1] = s => a <= p[2] ]

\* the arrivals of the itineraries that start at an access stop
AccessArrivals ==
    LeastArrivals({ << access_stops[i].stop_id, dep_time + access_stops[i].access_time >> :
                      i \in DOMAIN access_stops })

\* one more boarding: a trip boarded at a stop reached, a minute or more after
\* the arrival there, and left at a later stop of the trip, and then at most
\* one transfer edge
OneMoreBoarding(reached) ==
    LET rides ==
            UNION { { << trips[t].stop_times[j].stop_id, trips[t].stop_times[j].arrival_time >> :
                        j \in { j \in DOMAIN trips[t].stop_times :
                                  \E i \in 1..(j - 1) :
                                      /\ trips[t].stop_times[i].stop_id \in DOMAIN reached
                                      /\ trips[t].stop_times[i].departure_time
                                            >= reached[trips[t].stop_times[i].stop_id] + 1 } } :
                    t \in DOMAIN trips }
        walks ==
            UNION { { << Get(transfers, r[1], << >>)[e][1],
                         r[2] + Get(transfers, r[1], << >>)[e][2] >> :
                        e \in DOMAIN Get(transfers, r[1], << >>) } :
                    r \in rides }
    IN  LeastArrivals(rides \cup walks \cup { << s, reached[s] >> : s \in DOMAIN reached })

\* the earliest arrivals of the itineraries of at most n boardings
RECURSIVE EarliestArrivals(_)
EarliestArrivals(n) ==
    IF n = 0 THEN AccessArrivals ELSE OneMoreBoarding(EarliestArrivals(n - 1))

\* _execute_raptor_algorithm is over
EngineDone == pc = "collect"

\* C30: when the rounds are over, every stop an itinerary of at most
\* MAX_ROUNDS boardings reaches at time t has a label whose arrival_time is
\* not later than t
C30_EarliestArrivalOptimal ==
    EngineDone =>
        LET reference == EarliestArrivals(MAX_ROUNDS)
        IN  \A s \in DOMAIN reference :
                /\ s \in DOMAIN best_labels
                /\ best_labels[s].arrival_time <= reference[s]

====
